---- MODULE Spec2Model ----
(***************************************************************************)
(* Model of the research pipeline of Research-Ai-Assistant:                *)
(*   ResearchService.execute_research  (app/services/research_service.py)  *)
(*   AgentOrchestrator                 (app/agents/orchestrator.py)        *)
(*   the five agents' execute()        (app/agents/*.py)                   *)
(*   the store seen through the repositories (app/database/*.py)           *)
(* One session is modelled; asyncio is single threaded, so every action is *)
(* the code between two suspension points (awaits) of one coroutine.       *)
(***************************************************************************)
EXTENDS Integers, Sequences, FiniteSets, TLC

(* ---------------------------------------------------------------------- *)
(* Bounds of the model                                                     *)
(* ---------------------------------------------------------------------- *)
\* largest number of sources the data providers return for one Retrieve
\* execution whose sources are modelled one by one
MaxSrc == 2
\* largest number of indices in one reply of the relevance filter's LLM
MaxReply == 2
\* largest number of search queries (fan-out invocations) of one Retrieve
MaxQueries == 1
\* largest number of cancel() invocations in one behaviour
MaxCancels == 1

(* ---------------------------------------------------------------------- *)
(* Program constants                                                       *)
(* ---------------------------------------------------------------------- *)
\* the agent keys, in the order execute() runs them
AgentKeys == <<"user_proxy", "researcher", "analyst", "fact_checker", "report_generator">>

AgentKeySet == {AgentKeys[i] : i \in 1..5}

\* position of an agent key in the pipeline order
KeyIndex(a) == CHOOSE i \in 1..5 : AgentKeys[i] = a

\* BaseAgent: agent_name = self.name.lower().replace(" ", "_")
AgentEventName(a) == IF a = "fact_checker" THEN "fact-checker" ELSE a

\* _agent_weights of progress_callback
AgentWeight(n) ==
  CASE n = "user_proxy" -> 10
    [] n = "researcher" -> 30
    [] n = "analyst" -> 25
    [] n = "fact_checker" -> 20
    [] n = "report_generator" -> 15
    [] OTHER -> 0

\* the progress value of the orchestrator's "Phase k" notification
PhaseProgress(k) ==
  CASE k = 1 -> 5
    [] k = 2 -> 20
    [] k = 3 -> 45
    [] k = 4 -> 65
    [] OTHER -> 85

\* WorkflowPhase set by execute() before phase k
PhaseName(k) ==
  CASE k = 1 -> "query_processing"
    [] k = 2 -> "research"
    [] k = 3 -> "analysis"
    [] k = 4 -> "fact_checking"
    [] OTHER -> "report_generation"

\* number of providers of one fan-out (api_names of search_all)
NumProviders == 5

\* the staticmethods class ResearchRepository defines
ResearchRepositoryMethods ==
  {"create", "get_by_id", "get_by_session_id", "get_by_user", "list_sessions",
   "count_sessions", "count_by_user", "update_status", "update_agent_state",
   "update_metrics", "add_source_id", "add_finding_id", "set_report_id", "delete"}

\* an attribute lookup ResearchRepository.<m> succeeds iff the class defines m;
\* otherwise Python raises AttributeError at the call site
RepoHas(m) == m \in ResearchRepositoryMethods

Min(a, b) == IF a < b THEN a ELSE b

Max(a, b) == IF a > b THEN a ELSE b

(* ---------------------------------------------------------------------- *)
(* State                                                                   *)
(* ---------------------------------------------------------------------- *)
VARIABLES
  mode,            \* research_mode of the request: "auto" | "supervised"
  human_cb,        \* UserProxyAgent._human_input_callback is set
  query,           \* the query of the request, as a sequence of words
  max_sources,     \* max_sources of the request
  modifications,   \* UserProxyAgent.modifications: its "query" and "focus_areas"
  context,         \* query and max_sources of the context handed to the agent
  final_context,   \* query and max_sources of final_context of execute()
  svc_pc,          \* position of execute_research
  session_status,  \* ResearchSession.status in the store
  active,          \* session_id \in ResearchService.active_orchestrators
  pc,              \* position of AgentOrchestrator.execute
  stage,           \* index (1..5) of the phase execute() is in
  attempt,         \* number of Retrieve executions started
  is_cancelled,    \* AgentOrchestrator.is_cancelled
  is_running,      \* AgentOrchestrator.is_running
  current_phase,   \* AgentOrchestrator.current_phase
  results,         \* keys of AgentOrchestrator.results, in insertion order
  errors,          \* AgentOrchestrator.errors
  ops,             \* remaining steps of the agent.execute() in progress
  agent_status,    \* BaseAgent.status of the executing agent
  agent_progress,  \* BaseAgent.progress of the executing agent
  plan,            \* what the environment returns to the executing agent
  ret,             \* the dict the last _execute_agent returned
  result,          \* the dict execute() returned
  res_nsrc,        \* len(self.results["researcher"]["sources"])
  n_sources,       \* number of Source documents stored for the session
  n_findings,      \* number of Finding documents stored for the session
  pipeline,        \* keys of the pipeline artifacts stored for the session
  local_statuses,  \* _local_agent_statuses of progress_callback
  events,          \* the (agent, status) pairs of the messages broadcast so far
  last_event,      \* the last agent_status_update message broadcast
  db,              \* agent_statuses, current_phase, progress of the stored session
  hist,            \* history of the run (observation only, never read by the code)
  src_pc,          \* position in the source data path of one Retrieve execution
  all_sources,     \* all_sources of ResearcherAgent.execute (provider results)
  unique_sources,  \* unique_sources of ResearcherAgent.execute
  relevant_sources,\* relevant_sources of ResearcherAgent.execute
  source_docs,     \* urls of the Source documents stored for the session
  report_context,  \* the findings keys of the context given to the report generator
  findings,        \* findings of ReportGeneratorAgent.execute
  fan,             \* one search_all fan-out: its tasks, counter, callbacks, return
  rc,              \* RedisCache: _client set or None, and the keys the server holds
  srch,            \* one provider search function in progress
  conns,           \* ConnectionManager.active_connections[session_id]
  bc               \* one broadcast_to_session in progress

vars == <<mode, human_cb, modifications, final_context, query, max_sources, context, svc_pc, session_status, active, pc, stage, attempt,
          is_cancelled, is_running, current_phase, results, errors, ops,
          agent_status, agent_progress, plan, ret, result, res_nsrc, n_sources,
          n_findings, pipeline, local_statuses, events, last_event, db, hist,
          src_pc, all_sources, unique_sources, relevant_sources, source_docs,
          report_context, findings, fan, rc, srch, conns, bc>>

\* the variables of the data paths that are modelled item by item
datavars == <<src_pc, all_sources, unique_sources, relevant_sources,
              source_docs, report_context, findings, fan, rc, srch, conns, bc>>

\* the variables of the fan-out, the cache and the connection manager
netvars == <<fan, rc, srch, conns, bc>>

\* focus_areas of a context is "list" (a list of strings) or "null" (None)
NoContext == [query |-> <<>>, max_sources |-> 0, focus_areas |-> "list"]

\* self.modifications = {}: no "query" (<<>>) and no "focus_areas" key
NoMods == [query |-> <<>>, focus_areas |-> "absent"]

NoRet == [status |-> "none", approved |-> FALSE, nsrc |-> 0, nfind |-> 0,
          final_context |-> NoContext]

NoResult == [status |-> "none", failed_at |-> "none", phase |-> "none",
             partial |-> <<>>, has_partial |-> FALSE,
             agents_executed |-> <<>>, errors |-> <<>>]

NoPlan == [nsrc |-> 0, nfind |-> 0, nq |-> 1, rejected |-> FALSE,
           final_context |-> NoContext]

Range(s) == {s[i] : i \in DOMAIN s}

(* ---------------------------------------------------------------------- *)
(* progress_callback                                                       *)
(* ---------------------------------------------------------------------- *)
\* contribution of one agent to the weighted overall progress
Contribution(st, n) ==
  IF n \notin DOMAIN st THEN 0
  ELSE IF st[n].status = "completed" THEN AgentWeight(n)
  ELSE IF st[n].status = "in_progress" THEN (AgentWeight(n) * st[n].progress) \div 100
  ELSE 0

\* overall_progress computed by progress_callback from the local snapshot
Overall(st) ==
  Min(Contribution(st, "user_proxy") + Contribution(st, "researcher")
      + Contribution(st, "analyst") + Contribution(st, "fact_checker")
      + Contribution(st, "report_generator"), 100)

\* the snapshot after progress_callback recorded (name, status, progress)
Snapshot(st, name, status, progress) ==
  IF name \in AgentKeySet
  THEN [n \in (DOMAIN st) \cup {name} |->
          IF n = name THEN [status |-> status, progress |-> progress] ELSE st[n]]
  ELSE st

NoEvent == [agent |-> "none", status |-> "none", progress |-> 0, overall |-> 0]

\* the message send_agent_update broadcasts
Event(st, name, status, progress) ==
  [agent |-> name, status |-> status, progress |-> progress,
   overall |-> Overall(Snapshot(st, name, status, progress))]

(* ---------------------------------------------------------------------- *)
(* The steps of agent.execute(): each step is one suspension point          *)
(*   t = "st"   : await self._set_status(st)                                *)
(*   t = "pub"  : await self._update_progress(p)                            *)
(*   t = "call" : an awaited call of kind k (llm, provider, store, tool,    *)
(*                human); m is the repository method of a store call        *)
(*   lc    : the step is inside a local try/except of a helper (fallback)   *)
(*   intry : the step is inside the try block of execute()                  *)
(*   skip  : steps of the same local try block that a raise skips           *)
(* ---------------------------------------------------------------------- *)
St(s) == [t |-> "st", st |-> s, p |-> 0, k |-> "", m |-> "", lc |-> FALSE, intry |-> TRUE, skip |-> 0]

Pub(n) == [t |-> "pub", st |-> "", p |-> n, k |-> "", m |-> "", lc |-> FALSE, intry |-> TRUE, skip |-> 0]

PubLocal(n, sk) == [t |-> "pub", st |-> "", p |-> n, k |-> "", m |-> "", lc |-> TRUE, intry |-> TRUE, skip |-> sk]

Call(kind, caught) == [t |-> "call", st |-> "", p |-> 0, k |-> kind, m |-> "", lc |-> caught, intry |-> TRUE, skip |-> 0]

StoreCall(method, inside) == [t |-> "call", st |-> "", p |-> 0, k |-> "store", m |-> method, lc |-> FALSE, intry |-> inside, skip |-> 0]

\* "for area in focus_areas" of _generate_search_queries: no suspension
\* point, but it raises TypeError when focus_areas is None
Iterate == [t |-> "call", st |-> "", p |-> 0, k |-> "iterate", m |-> "", lc |-> FALSE, intry |-> TRUE, skip |-> 0]

\* UserProxyAgent.execute
UserProxyOps(m, hcb) ==
  <<St("in_progress"), Pub(10), Call("llm", TRUE), Pub(30), Pub(50)>>
  \o (IF m = "supervised" /\ hcb THEN <<Call("human", TRUE)>> ELSE <<>>)
  \o <<Pub(80), Pub(100), St("completed")>>

\* one iteration i (0-based) of the search loop of ResearcherAgent.execute:
\* the progress update, the fan-out, and the NumProviders _on_api_done updates
RECURSIVE ApiDoneOps(_, _, _)
ApiDoneOps(base, nq, done) ==
  IF done > NumProviders THEN <<>>
  ELSE <<Pub(base + (done * (40 \div nq)) \div NumProviders)>> \o ApiDoneOps(base, nq, done + 1)

RECURSIVE SearchLoopOps(_, _)
SearchLoopOps(i, nq) ==
  IF i >= nq THEN <<>>
  ELSE <<Pub(10 + (i * 40) \div nq), Call("provider", TRUE)>>
       \o ApiDoneOps(10 + (i * 40) \div nq, nq, 1)
       \o SearchLoopOps(i + 1, nq)

\* ResearcherAgent.execute; pl.nq search queries, pl.nsrc sources come back
ResearcherOps(pl) ==
  <<St("in_progress"), Pub(5), Iterate, Call("llm", TRUE), Pub(10)>>
  \o SearchLoopOps(0, pl.nq)
  \o <<Pub(55), Pub(60)>>
  \o (IF pl.nsrc > 0 THEN <<PubLocal(62, 1), Call("llm", TRUE)>> ELSE <<>>)
  \o <<Pub(80), Pub(85)>>
  \o (IF pl.nsrc > 0 THEN <<Pub(85), Call("llm", TRUE)>> ELSE <<>>)
  \o <<Pub(100), St("completed")>>

\* AnalystAgent.execute
AnalystOps ==
  <<St("in_progress"), Pub(5),
    StoreCall("SourceRepository.get_by_research", TRUE),
    StoreCall("FindingRepository.get_by_research", TRUE),
    Pub(15), Call("llm", TRUE), Pub(35), Call("llm", TRUE),
    Pub(55), Call("llm", TRUE), Pub(75), Call("llm", TRUE),
    Pub(90), Pub(100), St("completed")>>

\* FactCheckerAgent.execute: the store reads precede the try block
FactCheckerOps ==
  <<StoreCall("SourceRepository.get_by_research", FALSE),
    StoreCall("get_pipeline_data", FALSE),
    StoreCall("get_pipeline_data", FALSE),
    St("in_progress"), Pub(5), Pub(10), Call("tool", TRUE),
    Pub(30), Call("llm", TRUE), Pub(55), Call("llm", TRUE),
    Pub(70), Call("llm", TRUE), Pub(85), Pub(95), Pub(100), St("completed")>>

\* ReportGeneratorAgent.execute
ReportGeneratorOps ==
  <<St("in_progress"), Pub(5), Call("llm", TRUE), Pub(15), Call("tool", FALSE),
    Pub(30), Call("llm", TRUE), Pub(55), Call("tool", FALSE),
    Pub(70), Call("tool", FALSE), Pub(85), Call("tool", FALSE),
    Pub(100), St("completed")>>

AgentOps(a, m, hcb, pl) ==
  CASE a = "user_proxy" -> UserProxyOps(m, hcb)
    [] a = "researcher" -> ResearcherOps(pl)
    [] a = "analyst" -> AnalystOps
    [] a = "fact_checker" -> FactCheckerOps
    [] OTHER -> ReportGeneratorOps

\* a store call whose target is a ResearchRepository method the class lacks
\* raises AttributeError whatever the store does
MissingMethod(o) ==
  o.t = "call" /\ o.k = "store" /\ o.m \in {"get_pipeline_data", "save_pipeline_data"}
  /\ ~RepoHas(o.m)

(* ---------------------------------------------------------------------- *)
(* Initial state: the session document exists (start_research inserted it   *)
(* with status initialized) and execute_research is about to run            *)
(* ---------------------------------------------------------------------- *)
\* ResearchSession.agent_statuses default_factory
DefaultAgentStatuses == [n \in AgentKeySet |-> [status |-> "idle", progress |-> 0]]

\* log: the starts and returns of agent executions, in order;
\* failed: the executions that failed (raised, timed out or returned a
\* failure); zero_counted: the count after the first Retrieve returned 0;
\* cancels: the number of cancel() invocations; cancel_in: where execute()
\* was at each cancel(); cancel_exec: cancel() was invoked during the agent
\* execution in progress; calls_after: kinds of calls that execution started
\* after the cancel(); writes_after: documents written after a cancel();
\* started_after: agents started after a cancel(); cancel_events: the
\* number of ("orchestrator", "cancelled") events cancel() published;
\* terminal_writes: the terminal statuses execute_research saved, in order;
\* refused: the human answered the approval request with approved = false;
\* provider_called: a provider fan-out (search_all) has been started;
\* final_query: the query UserProxyAgent put into the final_context it
\* returned (<<>>: none returned);
\* persisted: the phases whose persistence helper has returned;
\* checkpoints: the awaiting_approval events _checkpoint published, each with
\* the phase it follows, whether that phase's persistence helper had returned
\* and whether the agent of the next phase had been started;
\* responses: the kinds of approval responses receive_feedback was given
NoHist == [log |-> <<>>, failed |-> {}, zero_counted |-> FALSE,
           cancels |-> 0, cancel_in |-> {}, cancel_exec |-> FALSE,
           calls_after |-> {}, writes_after |-> {}, started_after |-> {},
           cancel_events |-> 0, terminal_writes |-> <<>>,
           refused |-> FALSE, provider_called |-> FALSE, final_query |-> <<>>,
           persisted |-> {}, checkpoints |-> <<>>, responses |-> {}]

\* the name of execution number att of phase k in hist.failed
ExecutionName(k, att) == IF k = 2 /\ att = 2 THEN "researcher_retry" ELSE AgentKeys[k]

\* cancel() has been invoked for the session
CancelInvoked == hist.cancel_in # {}

\* the values of max_sources the requests of the model carry (the schema
\* admits 10..1000); one below and one above the floor of the retry
MaxSourcesInputs == {50, 300}

\* the state after construction, for a request with research_mode m and a
\* UserProxyAgent whose _human_input_callback is set (hcb) or None
InitMain(m, hcb) ==
  /\ mode = m
  /\ human_cb = hcb
  /\ modifications = NoMods
  /\ final_context = NoContext
  /\ query = <<"topic">>
  /\ max_sources \in MaxSourcesInputs
  /\ context = NoContext
  /\ svc_pc = "start"
  /\ session_status = "initialized"
  /\ active = FALSE
  /\ pc = "idle"
  /\ stage = 1
  /\ attempt = 0
  /\ is_cancelled = FALSE
  /\ is_running = FALSE
  /\ current_phase = "initialization"
  /\ results = <<>>
  /\ errors = <<>>
  /\ ops = <<>>
  /\ agent_status = "idle"
  /\ agent_progress = 0
  /\ plan = NoPlan
  /\ ret = NoRet
  /\ result = NoResult
  /\ res_nsrc = 0
  /\ n_sources = 0
  /\ pipeline = {}
  /\ local_statuses = [n \in {} |-> [status |-> "idle", progress |-> 0]]
  /\ events = {}
  /\ last_event = NoEvent
  /\ db = [statuses |-> DefaultAgentStatuses, current_phase |-> "none",
           progress |-> 0, query |-> query]
  /\ hist = NoHist

\* findings of ReportGeneratorAgent.execute before it has read its context
NotRead == [read |-> FALSE, n |-> 0]

\* the fan-out, the cache and the connection manager are not in use
NetIdle ==
  /\ fan = <<>>
  /\ rc = <<>>
  /\ srch = <<>>
  /\ conns = <<>>
  /\ bc = <<>>

\* the data paths modelled item by item are not in use
DataIdle ==
  /\ src_pc = "idle"
  /\ all_sources = <<>>
  /\ unique_sources = <<>>
  /\ relevant_sources = <<>>
  /\ source_docs = <<>>
  /\ report_context = <<>>
  /\ findings = NotRead
  /\ NetIdle

InitWith(m, hcb) ==
  /\ InitMain(m, hcb)
  /\ n_findings = 0
  /\ DataIdle

\* the program as it is wired: set_human_input_callback is never called, so
\* _human_input_callback stays None
Init == \E m \in {"auto", "supervised"} : InitWith(m, FALSE)

\* a supervised request to an orchestrator whose UserProxyAgent has been
\* given a human input callback (set_human_input_callback)
InitHuman == InitWith("supervised", TRUE)

(* ---------------------------------------------------------------------- *)
(* progress_callback as a state change                                      *)
(*   raised = TRUE : manager.broadcast_to_session raised (a connection was  *)
(*   removed by disconnect() while the broadcast awaited a send); the local *)
(*   snapshot is already updated, the store is not                          *)
(* ---------------------------------------------------------------------- *)
\* _update_session_progress: agent_statuses[agent_name], current_phase, progress
DbUpdate(d, name, status, progress) ==
  LET st == [n \in (DOMAIN d.statuses) \cup {name} |->
               IF n = name THEN [status |-> status, progress |-> progress]
               ELSE d.statuses[n]]
  IN [d EXCEPT !.statuses = st, !.current_phase = name, !.progress = Overall(st)]

ProgressCallback(name, status, progress, raised) ==
  /\ local_statuses' = Snapshot(local_statuses, name, status, progress)
  /\ events' = IF raised THEN events
               ELSE events \cup {[agent |-> name, status |-> status]}
  /\ last_event' = IF raised THEN last_event
                   ELSE Event(local_statuses, name, status, progress)
  /\ db' = IF raised THEN db ELSE DbUpdate(db, name, status, progress)

NoCallback == UNCHANGED <<local_statuses, events, last_event, db>>

(* ---------------------------------------------------------------------- *)
(* Results of AgentOrchestrator.execute                                     *)
(* ---------------------------------------------------------------------- *)
\* the generic "except Exception" handler of execute()
ExceptionResult ==
  [NoResult EXCEPT !.status = "failed", !.phase = "failed"]

\* the "except asyncio.CancelledError" handler of execute()
CancelledResult ==
  [NoResult EXCEPT !.status = "cancelled"]

\* _handle_rejection
RejectedResult ==
  [NoResult EXCEPT !.status = "rejected"]

\* _handle_failure(agent_name, result) after its notification
FailureResult(a, res, errs) ==
  [NoResult EXCEPT !.status = "failed", !.phase = "failed", !.failed_at = a,
                   !.partial = res, !.has_partial = TRUE, !.errors = errs]

\* _build_final_response
FinalResponse(res, errs) ==
  [NoResult EXCEPT !.status = "completed", !.agents_executed = res, !.errors = errs]

\* self.results[key] = value keeps the position of an existing key
PutResult(res, a) == IF a \in Range(res) THEN res ELSE Append(res, a)

\* execute() leaves through "except Exception"
RaiseInExecute ==
  /\ pc' = "returned"
  /\ current_phase' = "failed"
  /\ is_running' = FALSE
  /\ result' = ExceptionResult

(* ---------------------------------------------------------------------- *)
(* ResearchService.execute_research, first part                             *)
(* ---------------------------------------------------------------------- *)
\* lines 73-81: status RUNNING is saved, the orchestrator is created and
\* registered in active_orchestrators
SvcStart ==
  /\ svc_pc = "start"
  /\ svc_pc' = "registered"
  /\ session_status' = "running"
  /\ active' = TRUE
  /\ UNCHANGED <<datavars, mode, human_cb, modifications, final_context, query, max_sources, context, pc, stage, attempt, is_cancelled, is_running,
                 current_phase, results, errors, ops, agent_status, agent_progress,
                 plan, ret, result, res_nsrc, n_sources, n_findings, pipeline,
                 local_statuses, events, last_event, db, hist>>

\* lines 143-146: send_phase_update, then orchestrator.execute() runs up to
\* its first await (lines 150-171), which resets is_cancelled; if the
\* broadcast raises, the except branch stores FAILED and finally unregisters
SvcCallExecute(raised) ==
  /\ svc_pc = "registered"
  /\ IF raised
     THEN /\ svc_pc' = "done"
          /\ session_status' = "failed"
          /\ active' = FALSE
          /\ hist' = [hist EXCEPT !.terminal_writes = Append(@, "failed")]
          /\ UNCHANGED <<pc, stage, is_cancelled, is_running, current_phase,
                         results, errors>>
     ELSE /\ svc_pc' = "executing"
          /\ is_running' = TRUE
          /\ is_cancelled' = FALSE
          /\ results' = <<>>
          /\ errors' = <<>>
          /\ current_phase' = PhaseName(1)
          /\ pc' = "notify"
          /\ stage' = 1
          /\ UNCHANGED <<session_status, active, hist>>
  /\ UNCHANGED <<datavars, mode, human_cb, modifications, final_context, query, max_sources, context, attempt, ops,
                 agent_status, agent_progress, plan, ret, result, res_nsrc,
                 n_sources, n_findings, pipeline, local_statuses, events,
                 last_event, db>>

(* ---------------------------------------------------------------------- *)
(* AgentOrchestrator.execute: the awaited notifications                     *)
(* ---------------------------------------------------------------------- *)
\* what execute() does after the last agent of phase k has been dealt with:
\* the supervised checkpoint (after phases 2 and 3) or the next phase
NextPhasePc(k) == IF mode = "supervised" /\ k \in {2, 3} THEN "checkpoint" ELSE "notify"

\* a stage advance that skips the phase after Retrieve
NextPhaseStageSkip(k) ==
  IF mode = "supervised" /\ k \in {2, 3} THEN k ELSE IF k = 2 THEN 4 ELSE k + 1

NextPhaseStage(k) == IF mode = "supervised" /\ k \in {2, 3} THEN k ELSE k + 1

NextPhaseName(k, cur) == IF mode = "supervised" /\ k \in {2, 3} THEN cur ELSE PhaseName(k + 1)

\* the arguments of the notification awaited at position p
NotifyName(p) == IF p = "retry_notify" THEN "researcher" ELSE "orchestrator"

\* a notification at the checkpoint that reports an ordinary progress status
NotifyStatusPlain(p) ==
  CASE p = "fail_notify" -> "failed"
    [] p = "notify_done" -> "completed"
    [] OTHER -> "in_progress"

\* the status of the notification awaited at position p
NotifyStatus(p) ==
  CASE p = "checkpoint" -> "awaiting_approval"
    [] p = "fail_notify" -> "failed"
    [] p = "notify_done" -> "completed"
    [] OTHER -> "in_progress"

NotifyProgress(p, k) ==
  CASE p = "notify" -> PhaseProgress(k)
    [] p = "retry_notify" -> 30
    [] p = "notify_done" -> 100
    [] OTHER -> 0

\* _notify_progress awaited by execute(), _checkpoint and _handle_failure
OrchNotify(raised) ==
  /\ pc \in {"notify", "retry_notify", "checkpoint", "fail_notify", "notify_done"}
  /\ ProgressCallback(NotifyName(pc), NotifyStatus(pc), NotifyProgress(pc, stage), raised)
  /\ IF raised
     THEN RaiseInExecute /\ UNCHANGED stage
     ELSE /\ pc' = CASE pc \in {"notify", "retry_notify"} -> "exec"
                     [] pc = "checkpoint" -> "notify"
                     [] OTHER -> "returned"
          /\ stage' = IF pc = "checkpoint" THEN stage + 1 ELSE stage
          /\ current_phase' = IF pc = "checkpoint" THEN PhaseName(stage + 1) ELSE current_phase
          /\ result' = CASE pc = "fail_notify" -> FailureResult(AgentKeys[stage], results, errors)
                         [] pc = "notify_done" -> FinalResponse(results, errors)
                         [] OTHER -> result
          /\ UNCHANGED is_running
  /\ hist' = IF ~raised /\ NotifyStatus(pc) = "awaiting_approval"
             THEN [hist EXCEPT !.checkpoints = Append(@,
                     [after |-> stage,
                      persisted |-> stage \in hist.persisted,
                      next_started |-> \E i \in DOMAIN hist.log :
                         hist.log[i] = [e |-> "start", a |-> AgentKeys[stage + 1]]])]
             ELSE hist
  /\ UNCHANGED <<datavars, mode, human_cb, modifications, final_context, query, max_sources, context, svc_pc,
                 session_status, active, attempt, is_cancelled, results, errors,
                 ops, agent_status, agent_progress, plan, ret, res_nsrc,
                 n_sources, n_findings, pipeline>>

(* ---------------------------------------------------------------------- *)
(* AgentOrchestrator._execute_agent                                         *)
(* ---------------------------------------------------------------------- *)
\* the numbers of relevant sources one Retrieve execution can find before
\* it applies its limit: none, one, or one more than the caller's
\* max_sources ms
SourceYields(ms) == {0, 1, ms + 1}

\* relevant_sources[:max_sources] (researcher.py line 159), as a count
LimitSources(n, ms) == Min(n, ms)

\* what the environment can hand to one execution of agent a; nsrc is the
\* number of relevant sources found, nfind the number of findings extracted
Plans(a) ==
  IF a = "researcher"
  THEN {[NoPlan EXCEPT !.nsrc = n, !.nfind = f, !.nq = q] :
          n \in SourceYields(max_sources), f \in 0..1, q \in 1..MaxQueries}
       \ {[NoPlan EXCEPT !.nfind = 1, !.nq = q] : q \in 1..MaxQueries}
  ELSE {NoPlan}

\* the context execute() builds from its arguments (lines 159-167)
Context(q, ms) == [query |-> q, max_sources |-> ms, focus_areas |-> "list"]

\* a query other than the caller's, as a modification may carry
AltQuery == <<"other">>

\* modifications that carry another query
QueryMods == [NoMods EXCEPT !.query = AltQuery]

\* modifications {"focus_areas": null}
NullFocusMods == [NoMods EXCEPT !.focus_areas = "null"]

\* UserProxyAgent._prepare_final_context: the query of the context, unless
\* self.modifications holds a query; max_sources of the context; the
\* focus_areas of the plan, unless self.modifications holds focus_areas
PrepareFinalContext(ctx, mods) ==
  [query |-> IF mods.query # <<>> THEN mods.query ELSE ctx.query,
   max_sources |-> ctx.max_sources,
   focus_areas |-> IF mods.focus_areas # "absent" THEN mods.focus_areas
                   ELSE ctx.focus_areas]

\* a safeguard that leaves the query of Clarify's final_context in place
SafeguardOff(fc, q) == fc

\* lines 184-190 of execute(): final_context["query"] = query
Safeguard(fc, q) == [fc EXCEPT !.query = q]

\* the words the retry appends to the query (line 232)
BroadenWords == <<"overview", "research", "analysis">>

\* retry_context (lines 231-233)
RetryContext(fc, q, ms) ==
  [fc EXCEPT !.query = q \o BroadenWords, !.max_sources = Max(ms, 100)]

\* the cancel check of _execute_agent (line 369)
CancelCheck(flag) == flag

\* lines 369-382: the cancel check, agent.reset(), agent.execute(context) starts
ExecuteAgent ==
  /\ pc = "exec"
  /\ IF CancelCheck(is_cancelled)
     THEN /\ pc' = "returned"
          /\ result' = CancelledResult
          /\ is_cancelled' = TRUE
          /\ is_running' = FALSE
          /\ current_phase' = "failed"
          /\ UNCHANGED <<ops, plan, context, agent_status, agent_progress, attempt, hist>>
     ELSE /\ \E pl \in Plans(AgentKeys[stage]) :
               /\ plan' = pl
               /\ ops' = AgentOps(AgentKeys[stage], mode, human_cb, pl)
          /\ context' = CASE stage = 1 -> Context(query, max_sources)
                           [] stage = 2 /\ attempt = 1 -> RetryContext(final_context, query, max_sources)
                           [] OTHER -> final_context
          /\ pc' = "agent"
          /\ agent_status' = "idle"
          /\ agent_progress' = 0
          /\ attempt' = IF stage = 2 THEN attempt + 1 ELSE attempt
          /\ hist' = [hist EXCEPT
                        !.log = Append(@, [e |-> "start", a |-> AgentKeys[stage]]),
                        !.cancel_exec = FALSE,
                        !.started_after = IF hist.cancel_in # {}
                                          THEN @ \cup {AgentKeys[stage]} ELSE @]
          /\ UNCHANGED <<result, is_cancelled, is_running, current_phase>>
  /\ UNCHANGED <<datavars, mode, human_cb, modifications, final_context, query, max_sources, svc_pc, session_status,
                 active, stage, results, errors, ret, res_nsrc, n_sources,
                 n_findings, pipeline, local_statuses, events, last_event, db>>

(* ---------------------------------------------------------------------- *)
(* agent.execute(): one suspension point per action                         *)
(* ---------------------------------------------------------------------- *)
\* the steps left after step o raised inside a local try/except
AfterLocalRaise(os) == SubSeq(os, 2 + Head(os).skip, Len(os))

\* where an exception raised by step o goes: the except block of execute()
\* when o is inside its try, else out of execute() into _execute_agent
RaisePc(o) == IF o.intry THEN "agent_except" ELSE "ea_except"

\* the next step of the executing agent; out is what the awaited call does:
\*   "ok" it returns, "raise" it raises, "reject" the human refuses approval,
\*   "modify" the human approves with a modified query
AgentStep(out) ==
  /\ pc = "agent"
  /\ ops # <<>>
  /\ LET o == Head(ops)
         name == AgentEventName(AgentKeys[stage])
     IN /\ out \in {"reject", "modify"} => (o.t = "call" /\ o.k = "human")
        /\ MissingMethod(o) => out = "raise"
        /\ o.k = "iterate" => (out = "raise" <=> context.focus_areas = "null")
        /\ CASE o.t = "st" ->
                  /\ agent_status' = o.st
                  /\ agent_progress' = agent_progress
                  /\ ProgressCallback(name, o.st, agent_progress, out = "raise")
             [] o.t = "pub" ->
                  /\ agent_progress' = o.p
                  /\ agent_status' = agent_status
                  /\ ProgressCallback(name, agent_status, o.p, out = "raise")
             [] OTHER ->
                  /\ NoCallback
                  /\ UNCHANGED <<agent_status, agent_progress>>
        /\ modifications' = IF out = "modify" THEN QueryMods ELSE modifications
        /\ ops' = CASE out \in {"ok", "modify"} -> Tail(ops)
                    [] out = "reject" -> <<St("completed")>>
                    [] OTHER -> IF o.lc THEN AfterLocalRaise(ops) ELSE <<>>
        /\ pc' = IF out = "raise" /\ ~o.lc THEN RaisePc(o) ELSE "agent"
        /\ plan' = CASE out = "reject" -> [plan EXCEPT !.rejected = TRUE]
                     [] out = "raise" /\ ~o.lc -> NoPlan
                     [] out = "ok" /\ stage = 1 /\ o = Pub(80) ->
                          \* _prepare_final_context runs when this await returns
                          [plan EXCEPT !.final_context =
                                          PrepareFinalContext(context, modifications)]
                     [] OTHER -> plan
        /\ hist' = [hist EXCEPT
             !.failed = IF out = "raise" /\ ~o.lc
                        THEN @ \cup {ExecutionName(stage, attempt)} ELSE @,
             !.calls_after = IF /\ o.t = "call"
                                /\ o.k \in {"llm", "provider"}
                                /\ hist.cancel_exec
                             THEN @ \cup {o.k} ELSE @,
             !.refused = @ \/ out = "reject",
             !.provider_called = @ \/ (o.t = "call" /\ o.k = "provider")]
  /\ UNCHANGED <<datavars, mode, human_cb, final_context, query, max_sources, context, svc_pc, session_status, active, stage, attempt,
                 is_cancelled, is_running, current_phase, results, errors, ret,
                 result, res_nsrc, n_sources, n_findings, pipeline>>

\* asyncio.wait_for(agent.execute(context), timeout) expires: the agent task
\* is cancelled and _execute_agent handles asyncio.TimeoutError
AgentTimeout ==
  /\ pc \in {"agent", "agent_except"}
  /\ pc' = "ea_except"
  /\ ops' = <<>>
  /\ plan' = NoPlan
  /\ hist' = [hist EXCEPT !.failed = @ \cup {ExecutionName(stage, attempt)}]
  /\ UNCHANGED <<datavars, mode, human_cb, modifications, final_context, query, max_sources, context, svc_pc,
                 session_status, active, stage, attempt, is_cancelled, is_running,
                 current_phase, results, errors, agent_status, agent_progress,
                 ret, result, res_nsrc, n_sources, n_findings, pipeline,
                 local_statuses, events, last_event, db>>

\* the failure dict an agent (or _execute_agent) returns
FailedRet(a) ==
  [NoRet EXCEPT !.status = IF a = "user_proxy" THEN "error" ELSE "failed"]

\* the "except Exception" block of agent.execute(): _set_status(FAILED), then
\* the failure dict is returned; if the notification raises, the exception
\* leaves execute()
AgentExcept(raised) ==
  /\ pc = "agent_except"
  /\ agent_status' = "failed"
  /\ ProgressCallback(AgentEventName(AgentKeys[stage]), "failed", agent_progress, raised)
  /\ IF raised
     THEN /\ pc' = "ea_except"
          /\ ret' = ret
          /\ hist' = hist
     ELSE /\ pc' = "after"
          /\ ret' = FailedRet(AgentKeys[stage])
          /\ hist' = [hist EXCEPT
                        !.log = Append(@, [e |-> "return", a |-> AgentKeys[stage]])]
  /\ UNCHANGED <<datavars, mode, human_cb, modifications, final_context, query, max_sources, context, svc_pc, session_status, active, stage, attempt,
                 is_cancelled, is_running, current_phase, results, errors, ops,
                 agent_progress, plan, result, res_nsrc, n_sources, n_findings,
                 pipeline>>

\* the except blocks of _execute_agent (lines 387-408): notify
\* (agent_key, "failed", 0) and return {"status": "failed"}; if the
\* notification raises, the exception leaves _execute_agent
ExecuteAgentExcept(raised) ==
  /\ pc = "ea_except"
  /\ ProgressCallback(AgentKeys[stage], "failed", 0, raised)
  /\ IF raised
     THEN RaiseInExecute /\ ret' = ret
     ELSE /\ pc' = "after"
          /\ ret' = [NoRet EXCEPT !.status = "failed"]
          /\ UNCHANGED <<current_phase, is_running, result>>
  /\ hist' = [hist EXCEPT
                !.log = Append(@, [e |-> "return", a |-> AgentKeys[stage]])]
  /\ UNCHANGED <<datavars, mode, human_cb, modifications, final_context, query, max_sources, context, svc_pc, session_status, active, stage, attempt,
                 is_cancelled, results, errors, ops, agent_status,
                 agent_progress, plan, res_nsrc, n_sources, n_findings, pipeline>>

\* the dict agent.execute() returns after its last step
CompletedRet(a, pl, ctx) ==
  CASE a = "user_proxy" ->
         IF pl.rejected THEN [NoRet EXCEPT !.status = "rejected"]
         ELSE [NoRet EXCEPT !.status = "approved", !.approved = TRUE,
                            !.final_context = pl.final_context]
    [] a = "researcher" ->
         [NoRet EXCEPT !.status = "completed",
                       !.nsrc = LimitSources(pl.nsrc, ctx.max_sources),
                       !.nfind = pl.nfind]
    [] OTHER -> [NoRet EXCEPT !.status = "completed"]

\* agent.execute() returns normally and wait_for hands the dict back
AgentFinish ==
  /\ pc = "agent"
  /\ ops = <<>>
  /\ pc' = "after"
  /\ ret' = CompletedRet(AgentKeys[stage], plan, context)
  /\ plan' = NoPlan
  /\ hist' = [hist EXCEPT
                !.log = Append(@, [e |-> "return", a |-> AgentKeys[stage]])]
  /\ UNCHANGED <<datavars, mode, human_cb, modifications, final_context, query, max_sources, context, svc_pc,
                 session_status, active, stage, attempt, is_cancelled, is_running,
                 current_phase, results, errors, ops, agent_status,
                 agent_progress, result, res_nsrc, n_sources, n_findings,
                 pipeline, local_statuses, events, last_event, db>>

(* ---------------------------------------------------------------------- *)
(* AgentOrchestrator.execute: what follows each _execute_agent              *)
(* ---------------------------------------------------------------------- *)
\* a failed result of phase k (Retrieve execution number att) is passed to
\* _handle_failure: the first Retrieve, Analyze and Report
FatalStage(k, att) == k \in {3, 5} \/ (k = 2 /\ att = 1)

\* the code between the return of _execute_agent and the next await; ret is
\* kept only while the persistence step still reads it
AfterAgent ==
  /\ pc = "after"
  /\ LET a == AgentKeys[stage]
         failed == ret.status = "failed"
     IN IF stage = 1 /\ ~ret.approved
        THEN \* _handle_rejection
             /\ pc' = "returned"
             /\ result' = RejectedResult
             /\ current_phase' = "failed"
             /\ is_running' = FALSE
             /\ UNCHANGED <<results, errors, stage, res_nsrc>>
        ELSE IF stage > 1 /\ failed /\ FatalStage(stage, attempt)
        THEN \* _handle_failure up to its notification
             /\ pc' = "fail_notify"
             /\ current_phase' = "failed"
             /\ is_running' = FALSE
             /\ errors' = Append(errors, a)
             /\ UNCHANGED <<results, result, stage, res_nsrc>>
        ELSE IF stage = 2 /\ failed
        THEN \* "Retry also failed - continuing with 0 sources"
             /\ pc' = NextPhasePc(2)
             /\ stage' = NextPhaseStage(2)
             /\ current_phase' = NextPhaseName(2, current_phase)
             /\ UNCHANGED <<results, errors, result, is_running, res_nsrc>>
        ELSE IF stage = 4 /\ failed
        THEN \* the fallback confidence_summary is saved next
             /\ pc' = "persist"
             /\ errors' = Append(errors, "Fact-checking incomplete")
             /\ UNCHANGED <<results, result, stage, current_phase, is_running, res_nsrc>>
        ELSE /\ results' = PutResult(results, a)
             /\ res_nsrc' = IF stage = 2 THEN ret.nsrc ELSE res_nsrc
             /\ pc' = CASE stage = 1 -> "notify"
                         [] stage = 5 -> "notify_done"
                         [] OTHER -> "persist"
             /\ stage' = IF stage = 1 THEN 2 ELSE stage
             /\ current_phase' = CASE stage = 1 -> PhaseName(2)
                                    [] stage = 5 -> "completed"
                                    [] OTHER -> current_phase
             /\ is_running' = IF stage = 5 THEN FALSE ELSE is_running
             /\ UNCHANGED <<errors, result>>
  /\ ret' = IF pc' = "persist" THEN ret ELSE NoRet
  /\ final_context' = IF stage = 1 /\ ret.approved
                       THEN Safeguard(ret.final_context, query)
                       ELSE final_context
  /\ hist' = [hist EXCEPT
                !.final_query = IF stage = 1 /\ ret.approved
                                THEN ret.final_context.query ELSE @]
  /\ UNCHANGED <<datavars, mode, human_cb, modifications, query, max_sources, context, svc_pc,
                 session_status, active, attempt, is_cancelled, ops, agent_status,
                 agent_progress, plan, n_sources, n_findings, pipeline,
                 local_statuses, events, last_event, db>>

\* the artifact keys the persistence helper of phase k saves
ArtifactKeys(k) ==
  IF k = 3 THEN {"organized_findings", "patterns", "key_insights", "contradictions"}
  ELSE {"validated_findings", "confidence_summary", "bias_analysis"}

\* the limit of _persist_researcher_output: sources[:200]
PersistLimit == 200

\* the store writes after phase k, up to the next await of execute():
\*  k = 2: _persist_researcher_output (Source and Finding documents, metrics);
\*  k = 3: _persist_analyst_output; k = 4: _persist_fact_checker_output, or
\*  the fallback confidence_summary when the fact checker failed.
\* fault names the write the store fails ("none": no store failure)
Persist(fault) ==
  /\ pc = "persist"
  /\ LET nsrc == Min(ret.nsrc, PersistLimit)
         srcOk == nsrc > 0 /\ fault # "sources"
         findOk == ret.nfind > 0 /\ fault \notin {"sources", "findings"}
         canSave == RepoHas("save_pipeline_data")
         fallback == stage = 4 /\ ret.status = "failed"
         keys == IF fallback THEN {"confidence_summary"} ELSE ArtifactKeys(stage)
         saved == canSave /\ fault # "artifact"
         written == IF stage = 2
                    THEN (IF srcOk THEN {"source"} ELSE {})
                         \cup (IF findOk THEN {"finding"} ELSE {})
                    ELSE IF saved THEN {"artifact"} ELSE {}
     IN /\ fault \in (IF stage = 2
                      THEN {"none", "metrics"}
                           \cup (IF nsrc > 0 THEN {"sources"} ELSE {})
                           \cup (IF ret.nfind > 0 THEN {"findings"} ELSE {})
                      ELSE IF canSave THEN {"none", "artifact"} ELSE {"none"})
        /\ n_sources' = IF stage = 2 /\ srcOk THEN n_sources + nsrc ELSE n_sources
        /\ n_findings' = IF stage = 2 /\ findOk THEN n_findings + ret.nfind ELSE n_findings
        /\ pipeline' = IF stage # 2 /\ saved THEN pipeline \cup keys ELSE pipeline
        /\ IF fallback /\ ~saved
           THEN \* the fallback save is not inside a try block of its own
                RaiseInExecute /\ UNCHANGED stage
           ELSE /\ pc' = IF stage = 2 THEN "count" ELSE NextPhasePc(stage)
                /\ stage' = IF stage = 2 THEN stage ELSE NextPhaseStage(stage)
                /\ current_phase' = IF stage = 2 THEN current_phase
                                    ELSE NextPhaseName(stage, current_phase)
                /\ UNCHANGED <<is_running, result>>
        /\ hist' = [hist EXCEPT
                      !.writes_after = IF CancelInvoked THEN @ \cup written ELSE @,
                      !.persisted = @ \cup {stage}]
  /\ ret' = NoRet
  /\ UNCHANGED <<datavars, mode, human_cb, modifications, final_context, query, max_sources, context, svc_pc,
                 session_status, active, attempt, is_cancelled, results, errors,
                 ops, agent_status, agent_progress, plan, res_nsrc,
                 local_statuses, events, last_event, db>>

\* a retry condition that asks for a retry whenever the count is zero
RetryWantedLoop(count, att) == count = 0

\* the retry condition of execute() (line 220), reached only after the
\* first Retrieve execution
RetryWanted(count, att) == count = 0 /\ att = 1

\* SourceRepository.count_by_research after the persistence of Retrieve
\* (lines 219 and 241); a raise leaves execute() through "except Exception"
CountSources(raised) ==
  /\ pc = "count"
  /\ IF raised
     THEN RaiseInExecute /\ UNCHANGED stage
     ELSE /\ pc' = IF RetryWanted(n_sources, attempt) THEN "retry_notify" ELSE NextPhasePc(2)
          /\ stage' = IF RetryWanted(n_sources, attempt) THEN stage ELSE NextPhaseStage(2)
          /\ current_phase' = IF RetryWanted(n_sources, attempt) THEN current_phase
                              ELSE NextPhaseName(2, current_phase)
          /\ UNCHANGED <<is_running, result>>
  /\ hist' = [hist EXCEPT
                !.zero_counted = @ \/ (~raised /\ attempt = 1 /\ n_sources = 0)]
  /\ UNCHANGED <<datavars, mode, human_cb, modifications, final_context, query, max_sources, context, svc_pc, session_status, active, attempt,
                 is_cancelled, results, errors, ops, agent_status, agent_progress,
                 plan, ret, res_nsrc, n_sources, n_findings, pipeline,
                 local_statuses, events, last_event, db>>

(* ---------------------------------------------------------------------- *)
(* ResearchService.execute_research, after orchestrator.execute() returned  *)
(* ---------------------------------------------------------------------- *)
\* the limit of _save_research_results: sources[:200]
SaveLimit == 200

\* the status execute_research stores for the status execute() returned;
\* raised: the final broadcast (send_research_complete / send_research_error)
\* raised, which the "except Exception" branch turns into FAILED
StoredStatus(st, old, raised) ==
  CASE st = "completed" -> IF raised THEN "failed" ELSE "completed"
    [] st = "failed" -> "failed"
    [] st = "cancelled" -> "cancelled"
    [] OTHER -> old

\* the statuses execute_research saves for the status execute() returned, in
\* order: the one of the branch taken (lines 164, 182, 198), then FAILED
\* (line 209) when the broadcast that follows the save raised
StatusWrites(st, raised) ==
  (IF st \in {"completed", "failed", "cancelled"} THEN <<st>> ELSE <<>>)
  \o (IF raised THEN <<"failed">> ELSE <<>>)

\* lines 157-218: the branch on results["status"], then the finally block
SvcFinish(raised) ==
  /\ svc_pc = "executing"
  /\ pc = "returned"
  /\ raised => result.status \in {"completed", "failed"}
  /\ svc_pc' = "done"
  /\ active' = FALSE
  /\ session_status' = StoredStatus(result.status, session_status, raised)
  /\ n_sources' = IF result.status = "completed"
                  THEN n_sources + Min(res_nsrc, SaveLimit) ELSE n_sources
  /\ hist' = [hist EXCEPT
                !.writes_after = IF /\ CancelInvoked
                                    /\ result.status = "completed"
                                    /\ res_nsrc > 0
                                 THEN @ \cup {"source"} ELSE @,
                !.terminal_writes = @ \o StatusWrites(result.status, raised)]
  /\ UNCHANGED <<datavars, mode, human_cb, modifications, final_context, query, max_sources, context, pc, stage, attempt, is_cancelled, is_running,
                 current_phase, results, errors, ops, agent_status, agent_progress,
                 plan, ret, result, res_nsrc, n_findings, pipeline,
                 local_statuses, events, last_event, db>>

(* ---------------------------------------------------------------------- *)
(* ResearchService.cancel_research -> AgentOrchestrator.cancel              *)
(* ---------------------------------------------------------------------- *)
\* where execute() is at position p of phase k: "before" its start, inside
\* the execute() of an agent, "between" two agents, or "after" its return
ExecutingAgent(p, k) ==
  CASE p = "idle" -> "before"
    [] p = "returned" -> "after"
    [] p \in {"agent", "agent_except"} -> AgentKeys[k]
    [] OTHER -> "between"

\* cancel(): the flag is set, then ("orchestrator", "cancelled", 0) is
\* notified; cancel_research does nothing for an unregistered session
CancelBody(raised) ==
  /\ active
  /\ is_cancelled' = TRUE
  /\ ProgressCallback("orchestrator", "cancelled", 0, raised)
  /\ hist' = [hist EXCEPT
       !.cancels = @ + 1,
       !.cancel_in = @ \cup {ExecutingAgent(pc, stage)},
       !.cancel_exec = @ \/ pc \in {"agent", "agent_except"},
       !.cancel_events = IF raised THEN @ ELSE @ + 1]
  /\ UNCHANGED <<datavars, mode, human_cb, modifications, final_context, query, max_sources, context, svc_pc, session_status, active, pc, stage,
                 attempt, is_running, current_phase, results, errors, ops,
                 agent_status, agent_progress, plan, ret, result, res_nsrc,
                 n_sources, n_findings, pipeline>>

\* the approval_status receive_feedback records (user_proxy.py lines 370-376)
ApprovalStatus(approved, mods) ==
  IF ~approved THEN "rejected" ELSE IF mods # NoMods THEN "modified" ELSE "approved"

\* an "approval_response" message for a registered session: process_feedback
\* -> UserProxyAgent.receive_feedback(feedback, approved, modifications);
\* self.modifications is replaced when approved with non-empty modifications
ReceiveFeedback(approved, mods) ==
  /\ active
  /\ modifications' = IF approved /\ mods # NoMods THEN mods ELSE modifications
  /\ hist' = [hist EXCEPT !.responses = @ \cup {ApprovalStatus(approved, mods)}]
  /\ UNCHANGED <<datavars, mode, human_cb, final_context, query, max_sources, context,
                 svc_pc, session_status, active, pc, stage, attempt,
                 is_cancelled, is_running, current_phase, results, errors, ops,
                 agent_status, agent_progress, plan, ret, result, res_nsrc,
                 n_sources, n_findings, pipeline, local_statuses, events,
                 last_event, db>>

\* a "cancel" message of the client, at most MaxCancels per run
Cancel(raised) ==
  /\ hist.cancels < MaxCancels
  /\ CancelBody(raised)

\* a "cancel" message where one more cancel() than MaxCancels is allowed, so
\* that a repeated cancel() takes place
CancelTwice(raised) ==
  /\ hist.cancels < MaxCancels + 1
  /\ CancelBody(raised)

(* ---------------------------------------------------------------------- *)
(* The specification                                                        *)
(* ---------------------------------------------------------------------- *)
Next ==
  \/ SvcStart
  \/ \E raised \in BOOLEAN : SvcCallExecute(raised)
  \/ \E raised \in BOOLEAN : OrchNotify(raised)
  \/ ExecuteAgent
  \/ \E out \in {"ok", "raise", "reject", "modify"} : AgentStep(out)
  \/ AgentTimeout
  \/ \E raised \in BOOLEAN : AgentExcept(raised)
  \/ \E raised \in BOOLEAN : ExecuteAgentExcept(raised)
  \/ AgentFinish
  \/ AfterAgent
  \/ \E fault \in {"none", "sources", "findings", "metrics", "artifact"} : Persist(fault)
  \/ \E raised \in BOOLEAN : CountSources(raised)
  \/ \E raised \in BOOLEAN : SvcFinish(raised)
  \/ \E raised \in BOOLEAN : Cancel(raised)

Spec == Init /\ [][Next]_vars

\* The runs in which every provider call, LLM call and store operation
\* succeeds, no stage times out, no notification raises and cancel() is never
\* invoked. The only exceptions left are those the code raises by itself:
\* the lookup of a method ResearchRepository does not define.
NextNoFault ==
  \/ SvcStart
  \/ SvcCallExecute(FALSE)
  \/ OrchNotify(FALSE)
  \/ ExecuteAgent
  \/ \E out \in {"ok", "raise", "reject", "modify"} :
        /\ out = "raise" => (ops # <<>> /\ (MissingMethod(Head(ops)) \/ Head(ops).k = "iterate"))
        /\ AgentStep(out)
  \/ ExecuteAgentExcept(FALSE)
  \/ AgentFinish
  \/ AfterAgent
  \/ Persist("none")
  \/ CountSources(FALSE)
  \/ SvcFinish(FALSE)

SpecNoFault == Init /\ [][NextNoFault]_vars

\* The fault-free runs during which cancel() may be invoked at any step (its
\* own notification does not raise).
NextCancel ==
  \/ NextNoFault
  \/ Cancel(FALSE)

SpecCancel == Init /\ [][NextCancel]_vars

\* The fault-free runs during which cancel() may be invoked repeatedly.
NextCancelTwice ==
  \/ NextNoFault
  \/ CancelTwice(FALSE)

SpecCancelTwice == Init /\ [][NextCancelTwice]_vars

\* The runs in which no notification raises: calls and store operations may
\* fail, stages may time out, cancel() may be invoked at any step.
NextNoRaise ==
  \/ SvcStart
  \/ SvcCallExecute(FALSE)
  \/ OrchNotify(FALSE)
  \/ ExecuteAgent
  \/ \E out \in {"ok", "raise", "reject", "modify"} :
        /\ out = "raise" => (ops # <<>> /\ Head(ops).t = "call")
        /\ AgentStep(out)
  \/ AgentTimeout
  \/ AgentExcept(FALSE)
  \/ ExecuteAgentExcept(FALSE)
  \/ AgentFinish
  \/ AfterAgent
  \/ \E fault \in {"none", "sources", "findings", "metrics", "artifact"} : Persist(fault)
  \/ \E raised \in BOOLEAN : CountSources(raised)
  \/ SvcFinish(FALSE)
  \/ Cancel(FALSE)

SpecNoRaise == Init /\ [][NextNoRaise]_vars

\* The runs of SpecNoRaise during which the client may send feedback with a
\* modified query at any step.
NextFeedback ==
  \/ NextNoRaise
  \/ \E mods \in {NoMods, QueryMods} : ReceiveFeedback(TRUE, mods)

SpecFeedback == Init /\ [][NextFeedback]_vars

\* The fault-free runs during which the client may send approval responses
\* at any step: approved or not, without modifications, with a modified
\* query, or with the modifications {"focus_areas": null}.
NextApproval ==
  \/ NextNoFault
  \/ AgentExcept(FALSE)
  \/ \E approved \in BOOLEAN, mods \in {NoMods, QueryMods, NullFocusMods} :
        ReceiveFeedback(approved, mods)

SpecApproval == Init /\ [][NextApproval]_vars

\* Supervised runs of an orchestrator with a human input callback, in which
\* nothing fails: the human approves or refuses at the Clarify checkpoint.
SpecHumanNoFault == InitHuman /\ [][NextNoFault]_vars

\* Supervised runs with a human input callback and every fault of Spec.
SpecHuman == InitHuman /\ [][Next]_vars

(* ---------------------------------------------------------------------- *)
(* Observations used by the properties                                      *)
(* ---------------------------------------------------------------------- *)
\* agent a has been started
Started(a) == \E i \in DOMAIN hist.log : hist.log[i] = [e |-> "start", a |-> a]

\* the agents started, in the order of their starts
RECURSIVE StartsOf(_)
StartsOf(log) ==
  IF log = <<>> THEN <<>>
  ELSE IF Head(log).e = "start" THEN <<Head(log).a>> \o StartsOf(Tail(log))
  ELSE StartsOf(Tail(log))

\* the keys of the stages before agent a in the pipeline order
StagesBefore(a) == {AgentKeys[i] : i \in 1..(KeyIndex(a) - 1)}

\* execute() has returned
Returned == pc = "returned"

\* execute_research has returned
Finished == svc_pc = "done"

(* ---------------------------------------------------------------------- *)
(* The sources of one Retrieve execution, one by one                       *)
(* (ResearcherAgent.execute after the fan-out, then the two store writes)  *)
(* ---------------------------------------------------------------------- *)
\* a source as far as the path looks at it: its url ("" when the provider
\* gave none) and whether its keyword score reaches 0.1 (kw = 1) or not
SourceUrls == {"", "u1", "u2"}

SourceItems == [url : SourceUrls, kw : {0, 1}]

SeqsUpTo(S, n) == UNION {[1..k -> S] : k \in 0..n}

Prefix(s, n) == SubSeq(s, 1, Min(n, Len(s)))

UrlsOf(s) == [i \in DOMAIN s |-> s[i].url]

Distinct(s) == \A i, j \in DOMAIN s : i # j => s[i] # s[j]

\* the seen_urls loop: the first source of every non-empty url is kept
RECURSIVE DedupByUrl(_, _)
DedupByUrl(srcs, seen) ==
  IF srcs = <<>> THEN <<>>
  ELSE LET s == Head(srcs)
       IN IF s.url # "" /\ s.url \notin seen
          THEN <<s>> \o DedupByUrl(Tail(srcs), seen \cup {s.url})
          ELSE DedupByUrl(Tail(srcs), seen)

\* list.sort(key = score, reverse = True) is stable
SortByScore(srcs) ==
  SelectSeq(srcs, LAMBDA s : s.kw = 1) \o SelectSeq(srcs, LAMBDA s : s.kw = 0)

CandidateLimit == 150

BatchSize == 20

FallbackThreshold == 10

FallbackCap == 50

\* for idx in re.findall(r'\d+', response): every index inside the batch
\* appends batch[idx], once per occurrence (indices count from 0)
RECURSIVE Selected(_, _)
Selected(batch, reply) ==
  IF reply = <<>> THEN <<>>
  ELSE (IF Head(reply) < Len(batch) THEN <<batch[Head(reply) + 1]>> ELSE <<>>)
       \o Selected(batch, Tail(reply))

\* the except branch of a batch: its sources of score >= 0.1
KeywordSelected(batch) == SelectSeq(batch, LAMBDA s : s.kw = 1)

\* the loop over the batches; the LLM answers every batch with reply, or the
\* try block of every batch raises
RECURSIVE FilterBatches(_, _, _)
FilterBatches(candidates, reply, raised) ==
  IF candidates = <<>> THEN <<>>
  ELSE LET batch == Prefix(candidates, BatchSize)
           rest == SubSeq(candidates, Len(batch) + 1, Len(candidates))
       IN (IF raised THEN KeywordSelected(batch) ELSE Selected(batch, reply))
          \o FilterBatches(rest, reply, raised)

\* the keyword fallback loop: a source of the pool is appended when it is not
\* in the list yet, and the loop breaks once the list holds FallbackCap
RECURSIVE AppendMissing(_, _)
AppendMissing(rel, pool) ==
  IF pool = <<>> THEN rel
  ELSE LET r2 == IF Head(pool) \in Range(rel) THEN rel
                 ELSE Append(rel, Head(pool))
       IN IF Len(r2) >= FallbackCap THEN r2
          ELSE AppendMissing(r2, Tail(pool))

FilterRelevantSources(sources, reply, raised) ==
  IF sources = <<>> THEN <<>>
  ELSE LET scored == SortByScore(sources)
           candidates == Prefix(scored, CandidateLimit)
           chosen == FilterBatches(candidates, reply, raised)
       IN IF Len(chosen) < FallbackThreshold
          THEN AppendMissing(chosen, Prefix(scored, FallbackCap))
          ELSE chosen

\* the replies of the LLM: NONE or no number is <<>>; an index may repeat and
\* may lie outside the batch
Replies == SeqsUpTo(0..MaxSrc, MaxReply)

\* the providers have answered: all_sources holds what they returned
InitSources ==
  /\ InitMain("auto", FALSE)
  /\ n_findings = 0
  /\ src_pc = "collected"
  /\ all_sources \in SeqsUpTo(SourceItems, MaxSrc)
  /\ unique_sources = <<>>
  /\ relevant_sources = <<>>
  /\ source_docs = <<>>
  /\ report_context = <<>>
  /\ findings = NotRead
  /\ NetIdle

mainvars == <<mode, human_cb, modifications, final_context, query, max_sources,
              context, svc_pc, session_status, active, pc, stage, attempt,
              is_cancelled, is_running, current_phase, results, errors, ops,
              agent_status, agent_progress, plan, ret, result, res_nsrc,
              n_sources, n_findings, pipeline, local_statuses, events,
              last_event, db, hist>>

DedupSources ==
  /\ src_pc = "collected"
  /\ unique_sources' = DedupByUrl(all_sources, {})
  /\ src_pc' = "deduped"
  /\ UNCHANGED <<mainvars, netvars, all_sources, relevant_sources, source_docs,
                 report_context, findings>>

FilterSources(reply, raised) ==
  /\ src_pc = "deduped"
  /\ relevant_sources' = FilterRelevantSources(unique_sources, reply, raised)
  /\ src_pc' = "filtered"
  /\ UNCHANGED <<mainvars, netvars, all_sources, unique_sources, source_docs,
                 report_context, findings>>

\* relevant_sources = relevant_sources[:max_sources]
LimitRelevant ==
  /\ src_pc = "filtered"
  /\ relevant_sources' = Prefix(relevant_sources, max_sources)
  /\ src_pc' = "returned"
  /\ UNCHANGED <<mainvars, netvars, all_sources, unique_sources, source_docs,
                 report_context, findings>>

\* _persist_researcher_output: one document per source of sources[:200]; a
\* failing store is logged and nothing is written
PersistSources(raised) ==
  /\ src_pc = "returned"
  /\ source_docs' = IF raised THEN source_docs
                    ELSE source_docs \o UrlsOf(Prefix(relevant_sources, PersistLimit))
  /\ src_pc' = "persisted"
  /\ UNCHANGED <<mainvars, netvars, all_sources, unique_sources, relevant_sources,
                 report_context, findings>>

\* _save_research_results of a completed run: one document per source of
\* results["sources"][:200]
SaveSources ==
  /\ src_pc = "persisted"
  /\ source_docs' = source_docs \o UrlsOf(Prefix(relevant_sources, SaveLimit))
  /\ src_pc' = "saved"
  /\ UNCHANGED <<mainvars, netvars, all_sources, unique_sources, relevant_sources,
                 report_context, findings>>

NextSources ==
  \/ DedupSources
  \/ \E reply \in Replies, raised \in BOOLEAN : FilterSources(reply, raised)
  \/ LimitRelevant
  \/ \E raised \in BOOLEAN : PersistSources(raised)
  \/ SaveSources

SpecSources == InitSources /\ [][NextSources]_vars


(* ---------------------------------------------------------------------- *)
(* The findings input of ReportGeneratorAgent.execute                      *)
(* ---------------------------------------------------------------------- *)
\* largest number of findings under one key of a context
MaxFind == 1

\* the context keys ReportGeneratorAgent.execute looks for findings under,
\* in the order it tries them
FindingsKeys == <<"validated_findings", "organized_findings",
                  "consolidated_findings", "raw_findings">>

\* a context as far as the findings input goes: the findings keys it has,
\* each with the number of findings under it.  The context execute() passes
\* in phase 5 is final_context, which has none of these keys: <<>> here
ReportContexts ==
  UNION {[K -> 0..MaxFind] : K \in SUBSET Range(FindingsKeys)}

\* context.get(key, [])
Get(ctx, key) == IF key \in DOMAIN ctx THEN ctx[key] ELSE 0

\* findings = context.get("validated_findings", []), then one context.get
\* per fallback key while findings is empty
RECURSIVE FirstNonEmpty(_, _)
FirstNonEmpty(ctx, keys) ==
  IF keys = <<>> THEN 0
  ELSE IF Get(ctx, Head(keys)) > 0 THEN Get(ctx, Head(keys))
  ELSE FirstNonEmpty(ctx, Tail(keys))

ReportFindings(ctx) == FirstNonEmpty(ctx, FindingsKeys)

\* the Report stage is about to execute: the store holds n_findings Finding
\* documents of the session, the stage is handed report_context
InitReport ==
  /\ InitMain("auto", FALSE)
  /\ n_findings \in 0..MaxFind
  /\ src_pc = "report"
  /\ all_sources = <<>>
  /\ unique_sources = <<>>
  /\ relevant_sources = <<>>
  /\ source_docs = <<>>
  /\ report_context \in ReportContexts
  /\ findings = NotRead
  /\ NetIdle

\* lines 77-92 of ReportGeneratorAgent.execute: no read of the store
ReportReadFindings ==
  /\ src_pc = "report"
  /\ ~findings.read
  /\ findings' = [read |-> TRUE, n |-> ReportFindings(report_context)]
  /\ UNCHANGED <<mainvars, netvars, src_pc, all_sources, unique_sources,
                 relevant_sources, source_docs, report_context>>

NextReport == ReportReadFindings

SpecReport == InitReport /\ [][NextReport]_vars

(* ---------------------------------------------------------------------- *)
(* progress_callback fed with the publications of a run in which every      *)
(* stage completes: the phase notification of execute(), then the status    *)
(* and progress updates of the stage's agent, stage after stage             *)
(* ---------------------------------------------------------------------- *)
\* the steps of an agent that call progress_callback
PubOps(steps) == SelectSeq(steps, LAMBDA o : o.t \in {"st", "pub"})

InitProgress ==
  /\ \E m \in {"auto", "supervised"} : InitMain(m, FALSE)
  /\ n_findings = 0
  /\ src_pc = "progress"
  /\ all_sources = <<>>
  /\ unique_sources = <<>>
  /\ relevant_sources = <<>>
  /\ source_docs = <<>>
  /\ report_context = <<>>
  /\ findings = NotRead
  /\ NetIdle

\* _notify_progress("orchestrator", "in_progress", PhaseProgress(stage)) and
\* agent.reset() of the stage's agent
PhaseNotify ==
  /\ src_pc = "progress"
  /\ ops = <<>>
  /\ stage <= 5
  /\ agent_status \in {"idle", "completed"}
  /\ ProgressCallback("orchestrator", "in_progress", PhaseProgress(stage), FALSE)
  /\ \E pl \in Plans(AgentKeys[stage]) :
        ops' = PubOps(AgentOps(AgentKeys[stage], mode, human_cb, pl))
  /\ agent_status' = "reset"
  /\ agent_progress' = 0
  /\ UNCHANGED <<datavars, mode, human_cb, modifications, final_context, query,
                 max_sources, context, svc_pc, session_status, active, pc, stage,
                 attempt, is_cancelled, is_running, current_phase, results,
                 errors, plan, ret, result, res_nsrc, n_sources, n_findings,
                 pipeline, hist>>

\* one _set_status or _update_progress of the stage's agent
AgentPublish ==
  /\ src_pc = "progress"
  /\ ops # <<>>
  /\ LET o == Head(ops)
         name == AgentEventName(AgentKeys[stage])
     IN IF o.t = "st"
        THEN /\ agent_status' = o.st
             /\ agent_progress' = agent_progress
             /\ ProgressCallback(name, o.st, agent_progress, FALSE)
        ELSE /\ agent_progress' = o.p
             /\ agent_status' = agent_status
             /\ ProgressCallback(name, agent_status, o.p, FALSE)
  /\ ops' = Tail(ops)
  /\ stage' = IF Tail(ops) = <<>> THEN stage + 1 ELSE stage
  /\ UNCHANGED <<datavars, mode, human_cb, modifications, final_context, query,
                 max_sources, context, svc_pc, session_status, active, pc,
                 attempt, is_cancelled, is_running, current_phase, results,
                 errors, plan, ret, result, res_nsrc, n_sources, n_findings,
                 pipeline, hist>>

NextProgress ==
  \/ PhaseNotify
  \/ AgentPublish

SpecProgress == InitProgress /\ [][NextProgress]_vars

(* ---------------------------------------------------------------------- *)
(* SearchTools.search_all: one fan-out over the providers                   *)
(*   task[a] : "running"  the provider coroutine of _run(a) is awaited      *)
(*             "callback" _run(a) awaits on_api_complete                    *)
(*             "done"     _run(a) returned its result                       *)
(*             "raised"   on_api_complete raised out of _run(a)             *)
(* ---------------------------------------------------------------------- *)
\* api_names of search_all
ApiNames == <<"google", "newsapi", "arxiv", "pubmed", "wikipedia">>

ApiSet == Range(ApiNames)

\* the results of the provider coroutine of a when it returns: one item
\* (a coroutine that raises leaves [] in _run)
ProviderResults(a) == {<<[api_source |-> a]>>}

\* dict(zip(api_names, raw_results))
ZipDropFailed(res, failed) == [a \in ApiSet \ failed |-> res[a]]

Zip(res, failed) == [a \in ApiSet |-> res[a]]

\* completed_count += 1
NextCountStale(c) == c

NextCount(c) == c + 1

\* the srcvars of a component that does not use the source data path
SrcIdle ==
  /\ src_pc = "idle"
  /\ all_sources = <<>>
  /\ unique_sources = <<>>
  /\ relevant_sources = <<>>
  /\ source_docs = <<>>
  /\ report_context = <<>>
  /\ findings = NotRead

srcvars == <<src_pc, all_sources, unique_sources, relevant_sources,
             source_docs, report_context, findings>>

\* search_all has created its five _run tasks and awaits asyncio.gather
InitFanout ==
  /\ InitMain("auto", FALSE)
  /\ max_sources = 50
  /\ n_findings = 0
  /\ SrcIdle
  /\ fan = [task |-> [a \in ApiSet |-> "running"],
            res |-> [a \in ApiSet |-> <<>>],
            failed |-> {},
            completed_count |-> 0,
            calls |-> <<>>,
            out |-> "pending",
            output |-> <<>>]
  /\ rc = <<>>
  /\ srch = <<>>
  /\ conns = <<>>
  /\ bc = <<>>

\* the coroutine of provider a finishes: with its results r, or with an
\* exception (raised), which _run turns into []; _run then advances the
\* counter and calls on_api_complete, which runs up to its first suspension
ProviderFinish(a, r, raised) ==
  /\ fan # <<>>
  /\ fan.task[a] = "running"
  /\ fan' = [fan EXCEPT
               !.task[a] = "callback",
               !.res[a] = IF raised THEN <<>> ELSE r,
               !.failed = IF raised THEN @ \cup {a} ELSE @,
               !.completed_count = NextCount(@),
               !.calls = Append(@, [api |-> a,
                                    count |-> IF raised THEN 0 ELSE Len(r),
                                    done |-> NextCount(fan.completed_count)])]
  /\ UNCHANGED <<mainvars, srcvars, rc, srch, conns, bc>>

\* on_api_complete (_on_api_done: one _update_progress) returns or raises;
\* _run has no try around it
CallbackFinish(a, raised) ==
  /\ fan # <<>>
  /\ fan.task[a] = "callback"
  /\ fan' = [fan EXCEPT !.task[a] = IF raised THEN "raised" ELSE "done"]
  /\ UNCHANGED <<mainvars, srcvars, rc, srch, conns, bc>>

\* asyncio.gather: the first exception of a task is raised to search_all,
\* which has no handler; the other tasks keep running
GatherRaise ==
  /\ fan # <<>>
  /\ fan.out = "pending"
  /\ \E a \in ApiSet : fan.task[a] = "raised"
  /\ fan' = [fan EXCEPT !.out = "raised"]
  /\ UNCHANGED <<mainvars, srcvars, rc, srch, conns, bc>>

\* every task returned: output = dict(zip(api_names, raw_results))
GatherReturn ==
  /\ fan # <<>>
  /\ fan.out = "pending"
  /\ \A a \in ApiSet : fan.task[a] = "done"
  /\ fan' = [fan EXCEPT !.out = "returned", !.output = Zip(fan.res, fan.failed)]
  /\ UNCHANGED <<mainvars, srcvars, rc, srch, conns, bc>>

NextFanout ==
  \/ \E a \in ApiSet, raised \in BOOLEAN : \E r \in ProviderResults(a) :
        ProviderFinish(a, r, raised)
  \/ \E a \in ApiSet, raised \in BOOLEAN : CallbackFinish(a, raised)
  \/ GatherRaise
  \/ GatherReturn

SpecFanout == InitFanout /\ [][NextFanout]_vars

\* The fan-outs in which no on_api_complete raises: the only ones in which
\* search_all returns.
NextFanoutNoRaise ==
  \/ \E a \in ApiSet, raised \in BOOLEAN : \E r \in ProviderResults(a) :
        ProviderFinish(a, r, raised)
  \/ \E a \in ApiSet : CallbackFinish(a, FALSE)
  \/ GatherReturn

SpecFanoutNoRaise == InitFanout /\ [][NextFanoutNoRaise]_vars

(* ---------------------------------------------------------------------- *)
(* RedisCache and one provider search function of SearchTools               *)
(*   rc.client   : "none" (self._client is None) or "connected"             *)
(*   rc.store    : the keys the Redis server holds, each with its value and *)
(*                 the ttl argument of the set() that stored it             *)
(*   rc.last_get : what the last get() returned (hit = FALSE: None)         *)
(*   rc.last_op  : how the last get() or set() ended                        *)
(* ---------------------------------------------------------------------- *)
CacheKeys == {"k1", "k2"}

CacheValues == {<<"a">>, <<"b">>}

\* settings.cache_ttl
DefaultTtl == 86400

\* SearchTools.CACHE_TTL
CACHE_TTL == 86400

\* the ttl arguments of the set() calls of the model
TtlInputs == {-1, 0, CACHE_TTL}

\* RedisCache.connect: the client exists only when REDIS_URL is set and the
\* ping succeeded
Connect(url_set, ping_ok) == IF url_set /\ ping_ok THEN "connected" ELSE "none"

\* the property available
Available(r) == r.client # "none"

Miss == [hit |-> FALSE, value |-> <<>>]

\* RedisCache.get: None when unavailable, when the server call raises, and
\* when the server has no such key
CacheLookupAny(r, key, fails) ==
  IF key \in DOMAIN r.store /\ ~fails
  THEN [hit |-> TRUE, value |-> r.store[key].value]
  ELSE Miss

CacheLookup(r, key, fails) ==
  IF ~Available(r) \/ fails \/ key \notin DOMAIN r.store THEN Miss
  ELSE [hit |-> TRUE, value |-> r.store[key].value]

\* ttl = ttl or settings.cache_ttl
EffectiveTtl(ttl) == IF ttl = 0 THEN DefaultTtl ELSE ttl

\* the store after RedisCache.set: nothing when unavailable; SETEX with a
\* non-positive expiry is refused by the server and the call raises, as it
\* does on a connection failure (fails); both are caught and logged
CacheStore(r, key, value, ttl, fails) ==
  IF ~Available(r) \/ fails \/ EffectiveTtl(ttl) <= 0 THEN r.store
  ELSE [k \in (DOMAIN r.store) \cup {key} |->
          IF k = key THEN [value |-> value, ttl |-> ttl] ELSE r.store[k]]

\* "except Exception" of get() and set(): the failure is logged
ExceptOutcome == "returned"

OpOutcome(r, fails, ttl_bad) ==
  IF Available(r) /\ (fails \/ ttl_bad) THEN ExceptOutcome ELSE "returned"

\* what the server holds when the process starts
InitialStores ==
  {<<>>} \cup {[k \in {key} |-> [value |-> v, ttl |-> CACHE_TTL]] :
                 key \in CacheKeys, v \in CacheValues}

NoSearch == [pc |-> "idle", key |-> "k1", got |-> FALSE, hit |-> FALSE,
             contacted |-> FALSE, cached |-> <<>>, found |-> <<>>,
             result |-> <<>>]

InitCache ==
  /\ InitMain("auto", FALSE)
  /\ max_sources = 50
  /\ n_findings = 0
  /\ SrcIdle
  /\ fan = <<>>
  /\ \E url_set, ping_ok \in BOOLEAN, st \in InitialStores :
        rc = [client |-> Connect(url_set, ping_ok), store |-> st,
              initial |-> st, last_get |-> Miss, last_op |-> "none"]
  /\ srch = NoSearch
  /\ conns = <<>>
  /\ bc = <<>>

CacheGet(key, fails) ==
  /\ rc # <<>>
  /\ srch.pc = "idle"
  /\ rc' = [rc EXCEPT !.last_get = CacheLookup(rc, key, fails),
                      !.last_op = OpOutcome(rc, fails, FALSE)]
  /\ UNCHANGED <<mainvars, srcvars, fan, srch, conns, bc>>

CacheSet(key, value, ttl, fails) ==
  /\ rc # <<>>
  /\ srch.pc = "idle"
  /\ rc' = [rc EXCEPT !.store = CacheStore(rc, key, value, ttl, fails),
                      !.last_op = OpOutcome(rc, fails, EffectiveTtl(ttl) <= 0)]
  /\ UNCHANGED <<mainvars, srcvars, fan, srch, conns, bc>>

\* a key of the server reaches the end of its expiry time
Expire(key) ==
  /\ rc # <<>>
  /\ key \in DOMAIN rc.store
  /\ rc' = [rc EXCEPT !.store = [k \in (DOMAIN rc.store) \ {key} |-> rc.store[k]]]
  /\ UNCHANGED <<mainvars, srcvars, fan, srch, conns, bc>>

\* where a provider search goes after its cache check
AfterGetAlways(hit) == "contact"

AfterGet(hit) == IF hit THEN "returned" ELSE "contact"

\* a provider search function is called: without its API key it returns []
\* at once; otherwise it awaits get_search_cache and returns what it holds
SearchStart(key, configured, fails) ==
  /\ rc # <<>>
  /\ srch.pc \in {"idle", "returned"}
  /\ LET g == CacheLookup(rc, key, fails)
     IN IF ~configured
        THEN /\ srch' = [NoSearch EXCEPT !.pc = "returned", !.key = key]
             /\ rc' = rc
        ELSE /\ srch' = [NoSearch EXCEPT
                           !.pc = AfterGet(g.hit), !.key = key, !.got = TRUE,
                           !.hit = g.hit, !.cached = g.value,
                           !.result = IF g.hit THEN g.value ELSE <<>>]
             /\ rc' = [rc EXCEPT !.last_get = g,
                                 !.last_op = OpOutcome(rc, fails, FALSE)]
  /\ UNCHANGED <<mainvars, srcvars, fan, conns, bc>>

\* the HTTP request to the provider: its results, or <<>> after an error
\* status or an exception (caught by the function)
SearchContact(found) ==
  /\ rc # <<>>
  /\ srch.pc = "contact"
  /\ srch' = [srch EXCEPT !.contacted = TRUE, !.found = found,
                          !.pc = IF found # <<>> THEN "store" ELSE "returned",
                          !.result = found]
  /\ UNCHANGED <<mainvars, srcvars, fan, rc, conns, bc>>

\* if results: await set_search_cache(..., self.CACHE_TTL)
SearchStore(fails) ==
  /\ rc # <<>>
  /\ srch.pc = "store"
  /\ rc' = [rc EXCEPT
              !.store = CacheStore(rc, srch.key, srch.found, CACHE_TTL, fails),
              !.last_op = OpOutcome(rc, fails, FALSE)]
  /\ srch' = [srch EXCEPT !.pc = "returned"]
  /\ UNCHANGED <<mainvars, srcvars, fan, conns, bc>>

\* the caller has taken the result
SearchDone ==
  /\ rc # <<>>
  /\ srch.pc = "returned"
  /\ srch' = NoSearch
  /\ UNCHANGED <<mainvars, srcvars, fan, rc, conns, bc>>

NextCache ==
  \/ \E key \in CacheKeys, fails \in BOOLEAN : CacheGet(key, fails)
  \/ \E key \in CacheKeys, value \in CacheValues, ttl \in TtlInputs,
        fails \in BOOLEAN : CacheSet(key, value, ttl, fails)
  \/ \E key \in CacheKeys : Expire(key)
  \/ \E key \in CacheKeys, configured, fails \in BOOLEAN :
        SearchStart(key, configured, fails)
  \/ \E found \in CacheValues \cup {<<>>} : SearchContact(found)
  \/ \E fails \in BOOLEAN : SearchStore(fails)
  \/ SearchDone

SpecCache == InitCache /\ [][NextCache]_vars

(* ---------------------------------------------------------------------- *)
(* ConnectionManager: the connections of one session and one                *)
(* broadcast_to_session                                                     *)
(*   conns.key    : session_id \in active_connections                       *)
(*   conns.list   : active_connections[session_id]                          *)
(*   conns.closed : the websockets that disconnected                        *)
(*   bc.i         : index of the list iterator of the for loop              *)
(*   bc.orphan    : the list the loop iterates was deleted from the map     *)
(*   bc.stayed    : registered when the broadcast began and not             *)
(*                  disconnected since (observation only)                   *)
(* ---------------------------------------------------------------------- *)
\* largest number of websockets that connect for the session
MaxConns == 3

Websockets == 1..MaxConns

\* list.remove(x)
Remove(l, x) == SelectSeq(l, LAMBDA y : y # x)

NoBroadcast == [pc |-> "idle", i |-> 0, cur |-> 0, sent |-> {},
                disconnected |-> <<>>, stayed |-> {}, orphan |-> FALSE]

InitWs ==
  /\ InitMain("auto", FALSE)
  /\ max_sources = 50
  /\ n_findings = 0
  /\ SrcIdle
  /\ fan = <<>>
  /\ rc = <<>>
  /\ srch = <<>>
  /\ conns = [key |-> FALSE, list |-> <<>>, closed |-> {}]
  /\ bc = NoBroadcast

\* ConnectionManager.connect: a list is created when the session has none
WsConnect(w) ==
  /\ bc # <<>>
  /\ w \notin Range(conns.list) \cup conns.closed
  /\ conns' = [conns EXCEPT !.key = TRUE, !.list = Append(@, w)]
  /\ bc' = bc
  /\ UNCHANGED <<mainvars, srcvars, fan, rc, srch>>

\* ConnectionManager.disconnect: the list is deleted from the map when it
\* becomes empty
WsDisconnect(w) ==
  /\ bc # <<>>
  /\ w \in Range(conns.list)
  /\ LET l == Remove(conns.list, w)
     IN /\ conns' = [conns EXCEPT !.list = l,
                                  !.key = l # <<>>,
                                  !.closed = @ \cup {w}]
        /\ bc' = [bc EXCEPT !.stayed = @ \ {w},
                            !.orphan = @ \/ (bc.pc = "sending" /\ l = <<>>)]
  /\ UNCHANGED <<mainvars, srcvars, fan, rc, srch>>

\* the list the for loop of the broadcast iterates: a list deleted from the
\* map was empty and stays empty
LoopList(b, c) == IF b.orphan THEN <<>> ELSE c.list

\* "for conn in disconnected: self.active_connections[session_id].remove(conn)"
\* raises KeyError without the key and ValueError for a connection that is
\* not in the list
RECURSIVE RemoveAll(_, _, _)
RemoveAll(key, l, dis) ==
  IF dis = <<>> THEN [list |-> l, raised |-> FALSE]
  ELSE IF ~key \/ Head(dis) \notin Range(l) THEN [list |-> l, raised |-> TRUE]
  ELSE RemoveAll(key, Remove(l, Head(dis)), Tail(dis))

\* next() of a list iterator at index i: the element at i, if there is one
HasNext(i, l) == i < Len(l)

\* the loop asks its iterator for the next connection; when there is none
\* the disconnected connections are removed and the broadcast ends
Advance(b, c) ==
  LET l == LoopList(b, c)
  IN IF HasNext(b.i, l)
     THEN /\ bc' = [b EXCEPT !.pc = "sending", !.cur = l[b.i + 1], !.i = @ + 1]
          /\ conns' = c
     ELSE LET r == RemoveAll(c.key, c.list, b.disconnected)
          IN /\ bc' = [b EXCEPT !.pc = IF r.raised THEN "raised" ELSE "done",
                                !.cur = 0]
             /\ conns' = [c EXCEPT !.list = r.list]

\* broadcast_to_session is called while the session has a list
BroadcastStart ==
  /\ bc # <<>>
  /\ bc.pc = "idle"
  /\ conns.key
  /\ Advance([NoBroadcast EXCEPT !.stayed = Range(conns.list)], conns)
  /\ UNCHANGED <<mainvars, srcvars, fan, rc, srch>>

\* await connection.send_json(message) returns or raises
BroadcastSend(ok) ==
  /\ bc # <<>>
  /\ bc.pc = "sending"
  /\ Advance([bc EXCEPT !.sent = IF ok THEN @ \cup {bc.cur} ELSE @,
                        !.disconnected = IF ok THEN @ ELSE Append(@, bc.cur)],
             conns)
  /\ UNCHANGED <<mainvars, srcvars, fan, rc, srch>>

\* the broadcast is over for its caller
BroadcastEnd ==
  /\ bc # <<>>
  /\ bc.pc \in {"done", "raised"}
  /\ bc' = NoBroadcast
  /\ conns' = conns
  /\ UNCHANGED <<mainvars, srcvars, fan, rc, srch>>

NextWs ==
  \/ \E w \in Websockets : WsConnect(w)
  \/ \E w \in Websockets : WsDisconnect(w)
  \/ BroadcastStart
  \/ \E ok \in BOOLEAN : BroadcastSend(ok)
  \/ BroadcastEnd

SpecWs == InitWs /\ [][NextWs]_vars

(* ---------------------------------------------------------------------- *)
(* Events published for one session by concurrent publishers (the _run      *)
(* tasks of one fan-out, each through _update_progress, progress_callback   *)
(* and send_agent_update), with the session's connections staying           *)
(* connected.  Event n is the n-th one published.                           *)
(*   bc[n]            : the broadcast_to_session of event n                  *)
(*   conns.pending[w] : the events whose send_json on w is awaited, in call *)
(*                      order                                               *)
(*   conns.recv[w]    : the events w has received, in order                 *)
(*   rc.channel       : the events published on progress:{session_id}       *)
(* ---------------------------------------------------------------------- *)
\* largest number of events published in one behaviour
MaxEvents == 2

InitPublish ==
  /\ InitMain("auto", FALSE)
  /\ max_sources = 50
  /\ n_findings = 0
  /\ SrcIdle
  /\ fan = <<>>
  /\ \E url_set, ping_ok \in BOOLEAN :
        rc = [client |-> Connect(url_set, ping_ok), channel |-> <<>>]
  /\ srch = <<>>
  /\ conns = [key |-> TRUE,
              list |-> [i \in 1..MaxConns |-> i],
              closed |-> {},
              pending |-> [w \in Websockets |-> <<>>],
              recv |-> [w \in Websockets |-> <<>>]]
  /\ bc = <<>>

\* the loop of broadcast n asks its iterator for the next connection and
\* calls send_json on it; when there is none the disconnected connections
\* are removed and the broadcast ends
AdvanceEvent(n, b, c) ==
  IF HasNext(b.i, c.list)
  THEN LET w == c.list[b.i + 1]
       IN /\ bc' = [bc EXCEPT ![n] = [b EXCEPT !.pc = "sending", !.cur = w, !.i = @ + 1]]
          /\ conns' = [c EXCEPT !.pending[w] = Append(@, n)]
  ELSE LET r == RemoveAll(c.key, c.list, b.disconnected)
       IN /\ bc' = [bc EXCEPT ![n] = [b EXCEPT
                                        !.pc = IF r.raised THEN "raised" ELSE "done",
                                        !.cur = 0]]
          /\ conns' = [c EXCEPT !.list = r.list]

\* send_agent_update: the message is built and broadcast_to_session runs up
\* to its first send_json; RedisCache.publish_progress is not called
PublishEvent ==
  /\ conns # <<>>
  /\ "pending" \in DOMAIN conns
  /\ Len(bc) < MaxEvents
  /\ LET n == Len(bc) + 1
         b == [pc |-> "loop", i |-> 0, cur |-> 0, disconnected |-> <<>>]
     IN IF HasNext(0, conns.list)
        THEN /\ bc' = Append(bc, [b EXCEPT !.pc = "sending", !.cur = conns.list[1], !.i = 1])
             /\ conns' = [conns EXCEPT !.pending[conns.list[1]] = Append(@, n)]
        ELSE /\ bc' = Append(bc, [b EXCEPT !.pc = "done"])
             /\ conns' = conns
  /\ UNCHANGED <<mainvars, srcvars, fan, rc, srch>>

\* the awaited send_json of event n returns (the sends that succeed on one
\* connection do so in the order they were called) or raises
SendFinish(n, ok) ==
  /\ conns # <<>>
  /\ "pending" \in DOMAIN conns
  /\ n \in DOMAIN bc
  /\ bc[n].pc = "sending"
  /\ LET w == bc[n].cur
     IN /\ ok => Head(conns.pending[w]) = n
        /\ AdvanceEvent(n,
             [bc[n] EXCEPT !.disconnected = IF ok THEN @ ELSE Append(@, w)],
             [conns EXCEPT !.pending[w] = Remove(@, n),
                           !.recv[w] = IF ok THEN Append(@, n) ELSE @])
  /\ UNCHANGED <<mainvars, srcvars, fan, rc, srch>>

NextPublish ==
  \/ PublishEvent
  \/ \E n \in 1..MaxEvents, ok \in BOOLEAN : SendFinish(n, ok)

SpecPublish == InitPublish /\ [][NextPublish]_vars

\* the publishers are scheduled whenever they can run; nothing makes a
\* connection's send_json complete
SpecPublishFair == SpecPublish /\ WF_vars(PublishEvent)

(* ---------------------------------------------------------------------- *)
(* The search queries of one Retrieve execution                             *)
(*   fan = [pc, nfocus, lines, hints, deep, queries, invoked, collected]:   *)
(*   nfocus focus areas, lines usable lines in the LLM reply (0 also when   *)
(*   think() raised), hints: the context holds search_hints other than the  *)
(*   query, deep: research_mode of the context is "deep"; queries is        *)
(*   len(search_queries), invoked the number of search_all calls made,      *)
(*   collected is len(all_sources)                                          *)
(* ---------------------------------------------------------------------- *)
MaxFocus == 7

MaxLines == 6

\* additional_queries[:5]
LlmCap == 5

\* queries[:8]
StandardCap == 8

\* queries[:12]
DeepCap == 12

\* _generate_search_queries: the query, one variant per focus area, at most
\* LlmCap lines of the LLM reply, cut to the cap of the mode
GenerateSearchQueries(nfocus, lines, deep) ==
  Min(1 + nfocus + Min(lines, LlmCap), IF deep THEN DeepCap ELSE StandardCap)

\* search_queries of execute(): the generated queries, and search_hints
\* appended to them
SearchQueries(nfocus, lines, hints, deep) ==
  GenerateSearchQueries(nfocus, lines, deep) + (IF hints THEN 1 ELSE 0)

\* results_per_source of execute() for n search queries
ResultsPerSource(ms, n, deep) ==
  LET base == Max(5, Min(15, ms \div (n * 3)))
  IN IF deep THEN Min(base * 2, 25) ELSE base

InitQueries ==
  /\ InitMain("auto", FALSE)
  /\ max_sources = 50
  /\ n_findings = 0
  /\ SrcIdle
  /\ \E nf \in 0..MaxFocus, ln \in 0..MaxLines, h, d \in BOOLEAN :
        fan = [pc |-> "generate", nfocus |-> nf, lines |-> ln, hints |-> h,
               deep |-> d, queries |-> 0, invoked |-> 0, collected |-> 0]
  /\ rc = <<>>
  /\ srch = <<>>
  /\ conns = <<>>
  /\ bc = <<>>

\* lines 89-96: the search queries are generated
GenerateQueries ==
  /\ fan # <<>>
  /\ "queries" \in DOMAIN fan
  /\ fan.pc = "generate"
  /\ fan' = [fan EXCEPT !.pc = "loop",
                        !.queries = SearchQueries(fan.nfocus, fan.lines, fan.hints, fan.deep)]
  /\ UNCHANGED <<mainvars, srcvars, rc, srch, conns, bc>>

\* one iteration of the search loop: search_all is invoked for the next
\* query and returns found results of every provider or none; the loop ends
\* after the last query or when len(all_sources) >= max_sources * 2
SearchAll(found) ==
  /\ fan # <<>>
  /\ "queries" \in DOMAIN fan
  /\ fan.pc = "loop"
  /\ fan.invoked < fan.queries
  /\ LET got == IF found
                THEN NumProviders * ResultsPerSource(max_sources, fan.queries, fan.deep)
                ELSE 0
         total == fan.collected + got
     IN fan' = [fan EXCEPT !.invoked = @ + 1,
                           !.collected = total,
                           !.pc = IF total >= max_sources * 2 \/ fan.invoked + 1 = fan.queries
                                  THEN "dedup" ELSE "loop"]
  /\ UNCHANGED <<mainvars, srcvars, rc, srch, conns, bc>>

NextQueries ==
  \/ GenerateQueries
  \/ \E found \in BOOLEAN : SearchAll(found)

SpecQueries == InitQueries /\ [][NextQueries]_vars

(* ---------------------------------------------------------------------- *)
(* The two ResearchService singletons                                       *)
(*   srch = [api, ws, phase, msgs]: api is the instance held by             *)
(*   app.api.v1.research._research_service, ws the instance held by         *)
(*   app.services.research_service._research_service, each with `created`  *)
(*   (the global is not None) and `active` (the keys of its                 *)
(*   active_orchestrators); phase[s] is where session s is; msgs are the    *)
(*   cancel and approval_response messages handled so far, each with        *)
(*   whether an orchestrator was running the session and whether the        *)
(*   message reached an orchestrator                                        *)
(* ---------------------------------------------------------------------- *)
MaxSessions == 2

Sessions == 1..MaxSessions

\* _research_service = None
NoService == [created |-> FALSE, active |-> {}]

\* get_research_service(): the instance of the module's own global, created
\* on first use
GetResearchService(svc) == [svc EXCEPT !.created = TRUE]

InitRoute ==
  /\ InitMain("auto", FALSE)
  /\ max_sources = 50
  /\ n_findings = 0
  /\ SrcIdle
  /\ fan = <<>>
  /\ rc = <<>>
  /\ srch = [api |-> NoService, ws |-> NoService,
             phase |-> [s \in Sessions |-> "none"], msgs |-> {}]
  /\ conns = <<>>
  /\ bc = <<>>

\* POST /start: Depends(get_research_service) of app.api.v1.research, then
\* execute_research of that instance is added as a background task
StartResearch(s) ==
  /\ srch # <<>>
  /\ "phase" \in DOMAIN srch
  /\ srch.phase[s] = "none"
  /\ srch' = [srch EXCEPT !.api = GetResearchService(@), !.phase[s] = "queued"]
  /\ UNCHANGED <<mainvars, srcvars, fan, rc, conns, bc>>

\* execute_research line 81: self.active_orchestrators[session_id] = orchestrator
RegisterOrchestrator(s) ==
  /\ srch # <<>>
  /\ "phase" \in DOMAIN srch
  /\ srch.phase[s] = "queued"
  /\ srch' = [srch EXCEPT !.api.active = @ \cup {s}, !.phase[s] = "running"]
  /\ UNCHANGED <<mainvars, srcvars, fan, rc, conns, bc>>

\* the finally block of execute_research: del self.active_orchestrators[session_id]
UnregisterOrchestrator(s) ==
  /\ srch # <<>>
  /\ "phase" \in DOMAIN srch
  /\ srch.phase[s] = "running"
  /\ srch' = [srch EXCEPT !.api.active = @ \ {s}, !.phase[s] = "finished"]
  /\ UNCHANGED <<mainvars, srcvars, fan, rc, conns, bc>>

\* handle_client_message for a "cancel" or "approval_response" message of
\* session s: get_research_service of app.services.research_service, then
\* cancel_research / process_feedback, which act only when the session is in
\* active_orchestrators of that instance
HandleClientMessage(s, type) ==
  /\ srch # <<>>
  /\ "phase" \in DOMAIN srch
  /\ LET svc == GetResearchService(srch.ws)
     IN srch' = [srch EXCEPT
                   !.ws = svc,
                   !.msgs = @ \cup {[session |-> s, type |-> type,
                                     running |-> srch.phase[s] = "running",
                                     delivered |-> s \in svc.active]}]
  /\ UNCHANGED <<mainvars, srcvars, fan, rc, conns, bc>>

NextRoute ==
  \/ \E s \in Sessions : StartResearch(s)
  \/ \E s \in Sessions : RegisterOrchestrator(s)
  \/ \E s \in Sessions : UnregisterOrchestrator(s)
  \/ \E s \in Sessions, type \in {"cancel", "approval_response"} :
        HandleClientMessage(s, type)

SpecRoute == InitRoute /\ [][NextRoute]_vars

(* ---------------------------------------------------------------------- *)
(* C1: stage order                                                          *)
(* ---------------------------------------------------------------------- *)
\* C1: in every run the first agent started is user_proxy, and every other
\* start comes directly after the return of an execution of the stage just
\* before it in the order user_proxy, researcher, analyst, fact_checker,
\* report_generator (or, for the Retrieve retry, of researcher itself): no
\* stage starts while another executes, none is skipped or started early.
C1_StageOrder ==
  \A i \in DOMAIN hist.log :
    hist.log[i].e = "start" =>
      IF i = 1 THEN hist.log[i].a = "user_proxy"
      ELSE /\ hist.log[i - 1].e = "return"
           /\ \/ KeyIndex(hist.log[i].a) = KeyIndex(hist.log[i - 1].a) + 1
              \/ /\ hist.log[i].a = "researcher"
                 /\ hist.log[i - 1].a = "researcher"

\* the fact checker has been started, after Clarify, Retrieve and Analyze
C1_Witness ==
  /\ Started("fact_checker")
  /\ pc = "agent"
  /\ stage = 4

(* ---------------------------------------------------------------------- *)
(* C2: the fault-free run in auto mode                                      *)
(* ---------------------------------------------------------------------- *)
\* C2: in auto mode, when no call, store operation or notification fails, no
\* stage times out and cancel() is not invoked (SpecNoFault), a finished run
\* returned status completed with all five stages in agents_executed, and
\* the stored session status is completed.
C2_AutoRunCompletes ==
  (Finished /\ mode = "auto") =>
    /\ result.status = "completed"
    /\ session_status = "completed"
    /\ Range(result.agents_executed) = AgentKeySet

(* ---------------------------------------------------------------------- *)
(* C3: fatal stage failures                                                 *)
(* ---------------------------------------------------------------------- *)
\* C3: once execute() has returned from a run in which the first Retrieve
\* execution, Analyze or Report failed, the result has status failed and
\* names that stage, an orchestrator "failed" event has been published, no
\* later stage was started, partial_results holds exactly the stages
\* completed before it, and the status stored at the end is failed.
C3_FatalStageFailure ==
  \A a \in {"researcher", "analyst", "report_generator"} :
    (Returned /\ a \in hist.failed) =>
      /\ result.status = "failed"
      /\ result.failed_at = a
      /\ [agent |-> "orchestrator", status |-> "failed"] \in events
      /\ \A b \in AgentKeySet : KeyIndex(b) > KeyIndex(a) => ~Started(b)
      /\ result.has_partial
      /\ Range(result.partial) = StagesBefore(a)
      /\ Finished => session_status = "failed"

(* ---------------------------------------------------------------------- *)
(* C4: the Verify failure is tolerated                                      *)
(* ---------------------------------------------------------------------- *)
\* C4: a finished run in which the fact checker failed did not return
\* failed: the fallback confidence_summary is stored, the Report stage was
\* started, the run returned completed when Report did not fail, and the
\* errors of the result record the Verify failure.
C4_VerifyFailureTolerated ==
  (Finished /\ "fact_checker" \in hist.failed) =>
    /\ result.status # "failed"
    /\ "confidence_summary" \in pipeline
    /\ Started("report_generator")
    /\ "report_generator" \notin hist.failed => result.status = "completed"
    /\ "Fact-checking incomplete" \in Range(result.errors)

(* ---------------------------------------------------------------------- *)
(* C5: the Clarify failure                                                  *)
(* ---------------------------------------------------------------------- *)
\* C5: a run in which user_proxy failed (raised, timed out or returned an
\* error) returns status failed, and the status stored at the end is failed.
C5_ClarifyFailureFails ==
  "user_proxy" \in hist.failed =>
    /\ Returned => result.status = "failed"
    /\ Finished => session_status = "failed"

(* ---------------------------------------------------------------------- *)
(* C6: the Retrieve retry                                                   *)
(* ---------------------------------------------------------------------- *)
\* the context the claim gives the retry: the query with the words
\* "overview research analysis" appended, max_sources at least 100
C6_RetryContext ==
  [query |-> query \o <<"overview", "research", "analysis">>,
   max_sources |-> IF max_sources >= 100 THEN max_sources ELSE 100]

C7_CancelEndsCancelled ==
  (hist.cancel_in \ {"after"} # {}) =>
    /\ Returned => result.status = "cancelled"
    /\ Finished => session_status = "cancelled"

\* C8: the agent execution during which cancel() was invoked starts no
\* provider call and no LLM call after the cancel().
C8_NoCallAfterCancel == hist.calls_after = {}

\* C9: after a cancel() invoked while execute() runs, no Source, Finding or
\* pipeline artifact is written for the session.
C9_NoWriteAfterCancel == hist.writes_after = {}

\* C10: if cancel() was invoked while Retrieve was executing, execute()
\* returns status cancelled, analyst, fact_checker and report_generator are
\* never started, and no Analyze, Verify or Report artifact is stored.
C10_CancelDuringRetrieve ==
  "researcher" \in hist.cancel_in =>
    /\ Returned => result.status = "cancelled"
    /\ ~Started("analyst")
    /\ ~Started("fact_checker")
    /\ ~Started("report_generator")
    /\ pipeline = {}

(* ---------------------------------------------------------------------- *)
(* C11: cancellation is idempotent: a second cancel() on the same run       *)
(* changes no state (the flag, the stored progress document) and publishes  *)
(* no event beyond what the first cancel() did.                             *)
(* ---------------------------------------------------------------------- *)
C11_CancelIdempotent ==
  [][(hist.cancels >= 1 /\ hist'.cancels = hist.cancels + 1)
       => /\ is_cancelled' = is_cancelled
          /\ db' = db
          /\ hist'.cancel_events = hist.cancel_events]_vars

(* ---------------------------------------------------------------------- *)
(* C12: when execute_research has returned, the stored session status is    *)
(* completed, failed or cancelled, whatever execute() returned; a rejected  *)
(* run is stored as failed, and the session is never left running.          *)
(* ---------------------------------------------------------------------- *)
C12_TerminalStatusStored ==
  Finished =>
    /\ session_status \in {"completed", "failed", "cancelled"}
    /\ result.status = "rejected" => session_status = "failed"

(* ---------------------------------------------------------------------- *)
(* C13: a terminal status (completed, failed, cancelled) is saved at most   *)
(* once per session, so that the stored status never changes after it.      *)
(* ---------------------------------------------------------------------- *)
C13_TerminalStatusOnce ==
  /\ Len(hist.terminal_writes) <= 1
  /\ hist.terminal_writes # <<>> => session_status = hist.terminal_writes[1]

(* ---------------------------------------------------------------------- *)
(* C14: in supervised mode, once the approval at the Clarify checkpoint has *)
(* been refused, the run returns status rejected, the Retrieve stage never  *)
(* starts and no provider call is made.                                     *)
(* ---------------------------------------------------------------------- *)
C14_RefusalRejects ==
  (mode = "supervised" /\ hist.refused) =>
    /\ Returned => result.status = "rejected"
    /\ ~Started("researcher")
    /\ ~hist.provider_called

(* ---------------------------------------------------------------------- *)
(* C15: the first Retrieve execution and the Analyze, Verify and Report     *)
(* stages receive the caller's query unchanged, whatever query Clarify put  *)
(* into its final context and whether or not a Retrieve retry took place;   *)
(* the stored session.query is the caller's query.                          *)
(* ---------------------------------------------------------------------- *)
C15_QueryPreserved ==
  /\ (/\ pc \in {"agent", "agent_except", "ea_except", "after"}
      /\ stage >= 2
      /\ ~(stage = 2 /\ attempt = 2)) => context.query = query
  /\ stage >= 2 => final_context.query = query
  /\ db.query = query

\* Analyze executes after a Retrieve retry, in a run whose Clarify stage put
\* another query than the caller's into its final context
C15_Witness ==
  /\ pc = "agent"
  /\ stage = 3
  /\ attempt = 2
  /\ hist.final_query = AltQuery
  /\ context.query = query

(* ---------------------------------------------------------------------- *)
(* C16: the number of sources the Retrieve stage returned, and the number   *)
(* of sources stored for the session, never exceed the caller's             *)
(* max_sources.                                                             *)
(* ---------------------------------------------------------------------- *)
C16_SourcesWithinMax ==
  /\ (pc \in {"after", "persist"} /\ stage = 2) => ret.nsrc <= max_sources
  /\ res_nsrc <= max_sources
  /\ n_sources <= max_sources

(* ---------------------------------------------------------------------- *)
(* C17: the sources the Retrieve stage returns have pairwise distinct,      *)
(* non-empty URLs.                                                          *)
(* ---------------------------------------------------------------------- *)
C17_ReturnedUrlsDistinct ==
  src_pc \in {"returned", "persisted", "saved"} =>
    /\ Distinct(UrlsOf(relevant_sources))
    /\ \A i \in DOMAIN relevant_sources : relevant_sources[i].url # ""

(* ---------------------------------------------------------------------- *)
(* C18: at the end of a completed run the source documents stored for the   *)
(* session have pairwise distinct URLs.                                     *)
(* ---------------------------------------------------------------------- *)
C18_StoredUrlsDistinct == src_pc = "saved" => Distinct(source_docs)

(* ---------------------------------------------------------------------- *)
(* C19: the findings the Report stage builds the report from are non-empty  *)
(* whenever the store holds at least one finding of the session.            *)
(* ---------------------------------------------------------------------- *)
C19_ReportReadsStore == (findings.read /\ n_findings > 0) => findings.n > 0

(* ---------------------------------------------------------------------- *)
(* C20: when a stage starts, every output of the preceding stage is in the  *)
(* store: once Analyze has started the store holds every source Retrieve    *)
(* returned, and once Verify has started it holds every Analyze artifact.   *)
(* ---------------------------------------------------------------------- *)
C20_PredecessorPersisted ==
  /\ Started("analyst") => n_sources >= res_nsrc
  /\ Started("fact_checker") => ArtifactKeys(3) \subseteq pipeline

(* ---------------------------------------------------------------------- *)
(* C21: the persistence step after a stage never aborts the run: whatever   *)
(* the store does, execute() goes on to the count, the retry or the next    *)
(* phase and does not leave through its exception handler.                  *)
(* ---------------------------------------------------------------------- *)
C21_PersistNeverAborts == [][pc = "persist" => pc' # "returned"]_vars

(* ---------------------------------------------------------------------- *)
(* C22: the overall progress of the progress events of a session never      *)
(* decreases from one published event to the next.                          *)
(* ---------------------------------------------------------------------- *)
C22_OverallMonotonic == [][last_event'.overall >= last_event.overall]_vars

(* ---------------------------------------------------------------------- *)
(* C23: every stage that has completed contributes its full weight to the   *)
(* overall progress of the progress events, and once the five stages have   *)
(* completed the overall progress of the last event is 100.                 *)
(* ---------------------------------------------------------------------- *)
C23_CompletedFullWeight ==
  src_pc = "progress" =>
    /\ \A k \in 1..5 :
         stage > k => Contribution(local_statuses, AgentKeys[k]) = AgentWeight(AgentKeys[k])
    /\ stage > 5 => last_event.overall = 100

(* ---------------------------------------------------------------------- *)
(* C24: the map search_all returns has exactly the five provider keys; a    *)
(* provider that failed has the empty list, and every other provider has    *)
(* the results its own call produced.                                       *)
(* ---------------------------------------------------------------------- *)
C24_ReturnedMap ==
  (fan # <<>> /\ fan.out = "returned") =>
    /\ DOMAIN fan.output = ApiSet
    /\ \A a \in ApiSet :
         IF a \in fan.failed THEN fan.output[a] = <<>>
         ELSE fan.output[a] \in ProviderResults(a)

\* search_all returned after one provider failed and another one did not
C24_Witness ==
  /\ fan # <<>>
  /\ fan.out = "returned"
  /\ "arxiv" \in fan.failed
  /\ "pubmed" \notin fan.failed

(* ---------------------------------------------------------------------- *)
(* C25: search_all never lets an exception reach its caller.                *)
(* ---------------------------------------------------------------------- *)
C25_NoExceptionEscapes == fan # <<>> => fan.out # "raised"

(* ---------------------------------------------------------------------- *)
(* C26: on_api_complete is invoked at most once per provider, for exactly   *)
(* the providers whose call has finished, and the i-th invocation of the    *)
(* fan-out is passed completed count i.                                     *)
(* ---------------------------------------------------------------------- *)
C26_CallbackOncePerProvider ==
  fan # <<>> =>
    /\ \A i \in DOMAIN fan.calls : fan.calls[i].done = i
    /\ \A i, j \in DOMAIN fan.calls :
         i # j => fan.calls[i].api # fan.calls[j].api
    /\ \A a \in ApiSet :
         (\E i \in DOMAIN fan.calls : fan.calls[i].api = a) <=> fan.task[a] # "running"

\* all five providers have finished, the last of api_names first, and one of
\* them with a failure
C26_Witness ==
  /\ fan # <<>>
  /\ Len(fan.calls) = NumProviders
  /\ fan.calls[1].api = "wikipedia"
  /\ fan.calls[2].count = 0

(* ---------------------------------------------------------------------- *)
(* C27: while the cache is unavailable every get returns a miss, no set     *)
(* raises or changes what the server holds, and a provider search still     *)
(* contacts its provider and returns what the provider found.               *)
(* ---------------------------------------------------------------------- *)
C27_UnavailableCache ==
  (rc # <<>> /\ ~Available(rc)) =>
    /\ ~rc.last_get.hit
    /\ rc.last_op # "raised"
    /\ \A k \in DOMAIN rc.store :
         k \in DOMAIN rc.initial /\ rc.store[k] = rc.initial[k]
    /\ (srch.pc = "returned" /\ srch.got) =>
         srch.contacted /\ srch.result = srch.found

\* a search returned the provider's results with no cache client, while the
\* server holds the key the search asked for
C27_Witness ==
  /\ rc # <<>>
  /\ ~Available(rc)
  /\ srch.pc = "returned"
  /\ srch.contacted
  /\ srch.result # <<>>
  /\ srch.key \in DOMAIN rc.store

(* ---------------------------------------------------------------------- *)
(* C28: no key the server holds was stored by a set() whose ttl argument    *)
(* was 0 or negative.                                                       *)
(* ---------------------------------------------------------------------- *)
C28_NonPositiveTtlNotStored ==
  rc # <<>> => \A k \in DOMAIN rc.store : rc.store[k].ttl > 0

(* ---------------------------------------------------------------------- *)
(* C29: a provider search contacts its provider only after it consulted     *)
(* the cache and got a miss; after a hit it returns the cached results.     *)
(* ---------------------------------------------------------------------- *)
C29_CacheFirst ==
  rc # <<>> =>
    /\ srch.pc \in {"contact", "store"} \/ srch.contacted => srch.got /\ ~srch.hit
    /\ (srch.pc = "returned" /\ srch.hit) =>
         ~srch.contacted /\ srch.result = srch.cached

\* a search returned the cached results after a hit
C29_Witness ==
  /\ rc # <<>>
  /\ srch.pc = "returned"
  /\ srch.hit
  /\ srch.result # <<>>

(* ---------------------------------------------------------------------- *)
(* C30: when a broadcast has ended, the message was sent to every           *)
(* connection that was registered for the session when the broadcast began  *)
(* and did not disconnect during it.                                        *)
(* ---------------------------------------------------------------------- *)
C30_BroadcastReachesAll ==
  (bc # <<>> /\ bc.pc \in {"done", "raised"}) =>
    bc.stayed \subseteq bc.sent \cup Range(bc.disconnected)

(* ---------------------------------------------------------------------- *)
(* C31: every connection receives the events of the session in the order    *)
(* in which they were published.                                            *)
(* ---------------------------------------------------------------------- *)
C31_EventsInOrder ==
  (conns # <<>> /\ "recv" \in DOMAIN conns) =>
    \A w \in Websockets : \A i, j \in DOMAIN conns.recv[w] :
       i < j => conns.recv[w][i] < conns.recv[w][j]

(* ---------------------------------------------------------------------- *)
(* C32: a broadcast that waits for a connection's send is always followed   *)
(* by its return to the publisher, whether or not that send ever completes. *)
(* ---------------------------------------------------------------------- *)
C32_PublisherNotBlocked ==
  \A n \in 1..MaxEvents :
    (n \in DOMAIN bc /\ bc[n].pc = "sending")
      ~> (n \in DOMAIN bc /\ bc[n].pc \in {"done", "raised"})

(* ---------------------------------------------------------------------- *)
(* C33: when the Redis client is available, every event published for the   *)
(* session is on the channel progress:{session_id}.                         *)
(* ---------------------------------------------------------------------- *)
C33_PublishedOnChannel ==
  (rc # <<>> /\ "channel" \in DOMAIN rc /\ Available(rc)) =>
    \A n \in DOMAIN bc : n \in Range(rc.channel)

(* ---------------------------------------------------------------------- *)
(* Supervised checkpoints                                                   *)
(* ---------------------------------------------------------------------- *)
\* the awaiting_approval message of _checkpoint
AwaitingEvent == [agent |-> "orchestrator", status |-> "awaiting_approval"]

\* a checkpoint event published after phase k's persistence helper returned
\* and before the agent of phase k + 1 was started
CheckpointAfter(k) == [after |-> k, persisted |-> TRUE, next_started |-> FALSE]

C35_StartsAfterApproval ==
  mode = "supervised" =>
    \A k \in {3, 4} : Started(AgentKeys[k]) => hist.responses # {}

\* C40: an approval response delivered through process_feedback during a
\* run never changes which stages are executed or the status the run ends
\* with: a run in which nothing else fails executes Clarify, Retrieve,
\* Analyze and Verify and returns the result it returns without feedback.
C40_FeedbackKeepsOutcome ==
  pc = "returned" =>
    /\ \A k \in 1..4 : Started(AgentKeys[k])
    /\ result = ExceptionResult

\* C37: if the retry execution of Retrieve fails, raises or times out, the
\* failure is fatal: Analyze is not started, and the run returns failed at
\* the researcher.
C37_RetryFailureFatal ==
  "researcher_retry" \in hist.failed =>
    /\ ~Started("analyst")
    /\ pc = "returned" => (result.status = "failed" /\ result.failed_at \in {"researcher", "none"})

\* C38: broadcasting an event never raises into the stage or orchestrator
\* that published it, even when disconnect() runs while the broadcast is
\* awaiting a send.
C38_BroadcastNeverRaises ==
  (bc # <<>> /\ "orphan" \in DOMAIN bc) => bc.pc # "raised"

\* C36: the number of search_all invocations of one Retrieve execution never
\* exceeds 8 in standard mode and 12 in deep mode, whatever the LLM returns
\* and whatever focus areas and search hints are supplied.
C36_QueriesWithinCap ==
  (fan # <<>> /\ "invoked" \in DOMAIN fan) =>
    fan.invoked <= (IF fan.deep THEN DeepCap ELSE StandardCap)

\* C39: a cancel or approval message received over a session's WebSocket
\* while an orchestrator started through the REST start endpoint is running
\* that session is delivered to that orchestrator.
C39_MessageDelivered ==
  (srch # <<>> /\ "msgs" \in DOMAIN srch) =>
    \A msg \in srch.msgs : msg.running => msg.delivered

====
